---------------------------- MODULE Spec2Model ----------------------------
(***************************************************************************)
(* A model of agentsh's command-execution engine:                          *)
(*   - the process registry (src/src/registry.rs) together with the        *)
(*     background runner tasks it spawns (src/src/process.rs, run);        *)
(*   - ProcessRegistry::get_output on long outputs;                        *)
(*   - one PTY shell session's exec (src/src/session.rs).                   *)
(*                                                                         *)
(* Option<T> is a sequence: <<>> is None and <<x>> is Some(x).             *)
(* A HashMap is a function whose DOMAIN is the set of keys present.        *)
(* Every region of code run under the registry's map mutex is one action.  *)
(* Fields no operation branches on (command text, start_time,              *)
(* duration_seconds, max_output_lines) are left out of the records.        *)
(***************************************************************************)
EXTENDS Integers, Sequences, FiniteSets, Bags, TLC

\* ------------------------------------------------------------------ bounds

\* Caller-chosen process ids the operations are called with.
MaxIds == 2
\* Background commands started over one run of the model.
MaxTasks == 1
\* Lines one command writes to its pipes.
MaxLines == 2
\* Clock advances over one run of the model.
MaxTicks == 1
\* Calls between prune_expired and their second lock region.
MaxPending == 2
\* exec calls on the session over one run of the model.
MaxExecs == 2
\* Lines one session command prints.
MaxOut == 2
\* Lines the child of a one-shot run writes to its pipes.
MaxChildLines == 2
\* Lines a pipe holds before the child blocks on it.
PipeCap == 1
\* Caller-chosen session ids the manager's operations are called with.
MaxSessIds == 2
\* Writes to one session's PTY over one run of the model.
MaxWrites == 2
\* Characters after the end prefix in a line read by a session exec.
MaxCodeLen == 3
\* Lines ahead of that line in the stream.
MaxAhead == 2
\* Concurrent callers of the session manager.
MaxCallers == 2
\* longest output handed to window
MaxWinLines == 12
\* most words in a command handed to the validator
MaxTokens == 4
\* longest string handed to strip_ansi and to clean_line
MaxStrLen == 5
\* longest timeout of a session exec, in seconds
MaxExecTimeout == 2
\* requested timeouts: every one up to MaxSmallTimeout, and LargeTimeout
MaxSmallTimeout == 20
LargeTimeout == 1000000

\* ------------------------------------------------------- program constants

COMPLETED_TTL == 30 * 60
MAX_CONCURRENT_PROCESSES == 20
\* max_slice in get_output
max_slice == 500
\* MAX_OUTPUT_LINES of session.rs
MAX_OUTPUT_LINES == 100000
MAX_SESSIONS == 10
\* MAX_OUTPUT_LINES of process.rs
PROCESS_MAX_OUTPUT_LINES == 100000
\* exit_code of a session exec that timed out
TIMEOUT_EXIT_CODE == 124
\* $? of a command killed by SIGINT
SIGINT_STATUS == 130

Ids == 1..MaxIds
Callers == 1..MaxCallers
\* Ids of the long-running commands ("sleep") that were started before the
\* window the model explores, when n of them are running.
FillIds(n) == {100 + i : i \in 1..n}
\* How many of them there may be: none, one below the cap, the cap.
Preloads == {0, MAX_CONCURRENT_PROCESSES - 1, MAX_CONCURRENT_PROCESSES}
\* What the child of a started command does: "run" writes lines and exits,
\* "blocked" is rejected by validate_command, "sleep" stays silent and alive.
Commands == {"run", "blocked"}
ExitCodes == {0, 1}
\* The reason line of a command the validator rejected.
BlockedLine == 0

VARIABLES
    entries,   \* ProcessRegistry.entries: id -> ProcessEntry
    tasks,     \* the spawned runner tasks, in spawn order; a task's index is
               \* its JoinHandle and the name of its shared output buffer
    waiters,   \* bag of wait calls between their two lock regions
    pending,   \* number of start, store_result and list calls that have run
               \* prune_expired and not yet taken the lock again
    now,       \* Instant::now(), in seconds
    nticks,    \* clock advances so far
    last,      \* what the most recently returned registry call returned
    map_guard, \* the caller that holds the lock of ProcessRegistry.entries
    buf_guard, \* the locked output buffers: pairs <<buffer, holder>>, holder
               \* 0 being a reader task of the buffer's process
    rcalls,    \* the registry calls that are between two steps: caller ->
               \* its position
    \* one ShellSession
    tty_in,    \* wrapper lines written to the PTY that bash has not read yet
    fg,        \* bash's foreground command: None or Some([k, n]), the command of
               \* exec k having printed n lines
    ec,        \* bash's $?
    stream,    \* lines bash wrote to the PTY that the reader has not read yet
    nexec,     \* exec calls made so far (the uuid of the latest one)
    ex,        \* the local variables of the exec call in progress, and its result
    log,       \* what happened on the session so far: log.ended[k] is how the
               \* command of exec k ended (lines printed, exit status),
               \* log.results the results the exec calls returned, in order
    \* one call of process::run
    run,       \* its position, its config and what it computed so far
    child,     \* the /bin/sh child and its process group
    pipes,     \* lines written to the stdout / stderr pipe and not read yet
    readers,   \* the reader tasks that have not finished
    buffer,    \* the output buffer the readers share
    \* the SessionManager
    sessions,  \* SessionManager.sessions: id -> the shell session's state
    mlast,     \* what the most recently returned manager call returned
    guard,     \* the caller that holds the lock of SessionManager.sessions
    mcalls,    \* the manager calls in progress: caller -> its position
    cl,        \* the locals of the close call in progress, or of the last one
    call,      \* the call of a pure function that is being evaluated, if any
    ret,       \* what that call returned
    timer      \* the clock of a session exec: its timeout and the seconds since
               \* it began and since its current read began

reglockvars == <<map_guard, buf_guard, rcalls>>
regvars == <<entries, tasks, waiters, pending, now, nticks, last,
             map_guard, buf_guard, rcalls>>
sessvars == <<tty_in, fg, ec, stream, nexec, ex, log>>
runvars == <<run, child, pipes, readers, buffer>>
lockvars == <<guard, mcalls, cl>>
mgrvars == <<sessions, mlast, guard, mcalls, cl>>
funvars == <<call, ret>>
clockvars == <<timer>>
vars == <<entries, tasks, waiters, pending, now, nticks, last,
          map_guard, buf_guard, rcalls,
          tty_in, fg, ec, stream, nexec, ex, log,
          run, child, pipes, readers, buffer, sessions, mlast, guard, mcalls,
          cl, call, ret, timer>>

None == <<>>
Some(x) == <<x>>
Min(a, b) == IF a < b THEN a ELSE b

\* ------------------------------------------------------------ the registry

ProcessResult(code, to, ls) == [exit_code |-> code, timed_out |-> to, lines |-> ls]

\* ProcessEntry as start builds it: running, handle held by the entry.
RunningEntry(tid) ==
    [completed_at |-> None, output_buffer |-> tid,
     join_handle |-> Some(tid), result |-> None]

\* ProcessEntry as store_result builds it: a fresh, empty buffer no task writes
\* (buffer 0), no handle, the result cached.
StoredEntry(res, t) ==
    [completed_at |-> Some(t), output_buffer |-> 0,
     join_handle |-> None, result |-> Some(res)]

SleepTask == [state |-> "running", cmd |-> "sleep", buf |-> <<>>, res |-> None]

\* The contents of shared buffer b.
Buffer(b) == IF b = 0 THEN <<>> ELSE tasks[b].buf

\* Retained keeping no completed entry, whatever its age.
Retained_running(e, t) == e.completed_at = None

\* Retained dropping a completed entry one second before its TTL is over.
Retained_early(e, t) ==
    IF e.completed_at # None THEN t - e.completed_at[1] + 1 < COMPLETED_TTL ELSE TRUE

\* prune_expired's retain predicate.
Retained(e, t) ==
    IF e.completed_at # None THEN t - e.completed_at[1] < COMPLETED_TTL ELSE TRUE

prune_expired(ents, t) ==
    [i \in {j \in DOMAIN ents : Retained(ents[j], t)} |-> ents[i]]

Insert(ents, id, e) ==
    [i \in (DOMAIN ents) \cup {id} |-> IF i = id THEN e ELSE ents[i]]

\* entries.values().filter(|e| e.result.is_none()).count()
running_count(ents) == Cardinality({i \in DOMAIN ents : ents[i].result = None})

\* StatusOf without the timed_out test.
StatusOf_notimeout(e) ==
    IF e.result = None THEN "running"
    ELSE IF e.result[1].exit_code = 0 THEN "completed"
    ELSE "failed"

\* The status derivation of status().
StatusOf(e) ==
    IF e.result = None THEN "running"
    ELSE IF e.result[1].timed_out THEN "timed_out"
    ELSE IF e.result[1].exit_code = 0 THEN "completed"
    ELSE "failed"

\* The status derivation of list().
ListStatusOf(e) ==
    IF e.result # None /\ e.result[1].timed_out THEN "timed_out"
    ELSE IF e.result # None /\ e.result[1].exit_code = 0 THEN "completed"
    ELSE IF e.result # None THEN "failed"
    ELSE "running"

Reply(op, id, err, val) == [op |-> op, id |-> id, err |-> err, val |-> val]
NoReply == Reply("none", 0, "", None)

Launched == Cardinality({t \in DOMAIN tasks : tasks[t].cmd # "sleep"})

\* The first lock region of start, store_result and list: prune_expired. Which
\* of the three the caller is, and with which arguments, shows only in its
\* second lock region.
prune_call ==
    /\ pending < MaxPending
    /\ pending' = pending + 1
    /\ entries' = prune_expired(entries, now)
    /\ last' = NoReply
    /\ UNCHANGED <<tasks, waiters, now, nticks>>

\* start_check letting a start through when the cap is already reached.
start_check_over(ents, id) ==
    IF id \in DOMAIN ents THEN "already exists"
    ELSE IF running_count(ents) > MAX_CONCURRENT_PROCESSES
         THEN "too many concurrent processes"
    ELSE ""

\* start_check without the contains_key test.
start_check_nodup(ents, id) ==
    IF running_count(ents) >= MAX_CONCURRENT_PROCESSES
    THEN "too many concurrent processes"
    ELSE ""

\* What start answers under the lock: "" when the command may be spawned.
start_check(ents, id) ==
    IF id \in DOMAIN ents THEN "already exists"
    ELSE IF running_count(ents) >= MAX_CONCURRENT_PROCESSES
         THEN "too many concurrent processes"
    ELSE ""

\* The second lock region of start.
start(id, cmd) ==
    /\ pending > 0
    /\ pending' = pending - 1
    /\ LET err == start_check(entries, id) IN
       IF err # ""
       THEN /\ last' = Reply("start", id, err, None)
            /\ UNCHANGED <<entries, tasks>>
       ELSE /\ Launched < MaxTasks
            /\ tasks' = Append(tasks, [state |-> "running", cmd |-> cmd,
                                       buf |-> <<>>, res |-> None])
            /\ entries' = Insert(entries, id, RunningEntry(Len(tasks) + 1))
            /\ last' = Reply("start", id, "", None)
    /\ UNCHANGED <<waiters, now, nticks>>

\* Results run_command hands to store_result.
StoredResults == {ProcessResult(0, FALSE, <<1>>)}

\* run_command stores under a fresh v4 uuid: an id that no entry and no call
\* in flight bears.
FreshId(id) == id \notin DOMAIN entries /\ \A w \in BagToSet(waiters) : w.id # id

\* The second lock region of store_result.
store_result(id, res) ==
    /\ pending > 0
    /\ FreshId(id)
    /\ pending' = pending - 1
    /\ entries' = Insert(entries, id, StoredEntry(res, now))
    /\ last' = Reply("store_result", id, "", Some(res))
    /\ UNCHANGED <<tasks, waiters, now, nticks>>

\* The second lock region of list.
list ==
    /\ pending > 0
    /\ pending' = pending - 1
    /\ last' = Reply("list", 0, "", [i \in DOMAIN entries |-> ListStatusOf(entries[i])])
    /\ UNCHANGED <<entries, tasks, waiters, now, nticks>>

Waiter(id, tid, timed) == [id |-> id, tid |-> tid, timed |-> timed]

\* A take that leaves the handle in the entry.
take_handle_keep(e) == e

\* entry.join_handle.take()
take_handle(e) == [e EXCEPT !.join_handle = None]

\* wait_check without the cached-result test.
wait_check_nocache(e) ==
    IF e.join_handle = None THEN "already being waited on"
    ELSE "take"

\* What the first lock region of wait decides for entry e.
wait_check(e) ==
    IF e.result # None THEN "cached"
    ELSE IF e.join_handle = None THEN "already being waited on"
    ELSE "take"

\* The first lock region of wait: return the cached result, or take the handle.
wait_take(id, timed) ==
    /\ IF id \notin DOMAIN entries
       THEN /\ last' = Reply("wait", id, "no process", None)
            /\ UNCHANGED <<entries, waiters>>
       ELSE LET e == entries[id]
                what == wait_check(e) IN
            IF what = "cached"
            THEN /\ last' = Reply("wait", id, "", e.result)
                 /\ UNCHANGED <<entries, waiters>>
            ELSE IF what = "take" /\ e.join_handle # None
            THEN /\ entries' = [entries EXCEPT ![id] = take_handle(e)]
                 /\ waiters' = waiters (+) SetToBag({Waiter(id, e.join_handle[1], timed)})
                 /\ last' = NoReply
            ELSE /\ last' = Reply("wait", id, "already being waited on", None)
                 /\ UNCHANGED <<entries, waiters>>
    /\ UNCHANGED <<tasks, pending, now, nticks>>

\* tokio::time::timeout elapses before the task has finished: the awaiter
\* returns and drops the handle, which detaches the task.
wait_timeout(w) ==
    /\ w \in BagToSet(waiters)
    /\ w.timed
    /\ tasks[w.tid].state = "running"
    /\ waiters' = waiters (-) SetToBag({w})
    /\ last' = Reply("wait", w.id, "wait timed out", None)
    /\ UNCHANGED <<entries, tasks, pending, now, nticks>>

\* wait_store caching the result without the completion time.
wait_store_result_only(e, res, t) == [e EXCEPT !.result = Some(res)]

\* The entry after wait's second lock region stored res.
wait_store(e, res, t) == [e EXCEPT !.result = Some(res), !.completed_at = Some(t)]

\* The awaited handle resolves; the second lock region of wait caches the result.
wait_cache(w) ==
    /\ w \in BagToSet(waiters)
    /\ tasks[w.tid].state # "running"
    /\ waiters' = waiters (-) SetToBag({w})
    /\ IF tasks[w.tid].state = "aborted"
       THEN /\ last' = Reply("wait", w.id, "task join error", None)
            /\ UNCHANGED entries
       ELSE LET res == tasks[w.tid].res[1] IN
            /\ entries' = IF w.id \in DOMAIN entries
                          THEN [entries EXCEPT ![w.id] = wait_store(@, res, now)]
                          ELSE entries
            /\ last' = Reply("wait", w.id, "", Some(res))
    /\ UNCHANGED <<tasks, pending, now, nticks>>

\* status: a snapshot under the lock (tail_lines left out).
status(id) ==
    /\ last' = IF id \notin DOMAIN entries
               THEN Reply("status", id, "no process", None)
               ELSE Reply("status", id, "", Some(StatusOf(entries[id])))
    /\ UNCHANGED <<entries, tasks, waiters, pending, now, nticks>>

\* kill without the test for a cached result.
kill_completed(id) ==
    /\ IF id \notin DOMAIN entries
       THEN /\ last' = Reply("kill", id, "no process", None)
            /\ UNCHANGED <<entries, tasks>>
       ELSE LET e == entries[id] IN
            /\ entries' = [entries EXCEPT ![id] =
                              [e EXCEPT !.join_handle = None,
                                        !.result = Some(ProcessResult(-1, FALSE, Buffer(e.output_buffer))),
                                        !.completed_at = Some(now)]]
            /\ tasks' = IF e.join_handle # None /\ tasks[e.join_handle[1]].state = "running"
                        THEN [tasks EXCEPT ![e.join_handle[1]].state = "aborted"]
                        ELSE tasks
            /\ last' = Reply("kill", id, "", None)
    /\ UNCHANGED <<waiters, pending, now, nticks>>

\* The entry after kill, and whether kill aborted its task.
kill_entry(e, t) ==
    IF e.join_handle # None
    THEN [e EXCEPT !.join_handle = None,
                   !.result = Some(ProcessResult(-1, FALSE, Buffer(e.output_buffer))),
                   !.completed_at = Some(t)]
    ELSE e

kill(id) ==
    /\ IF id \notin DOMAIN entries
       THEN /\ last' = Reply("kill", id, "no process", None)
            /\ UNCHANGED <<entries, tasks>>
       ELSE LET e == entries[id] IN
            IF e.result # None
            THEN /\ last' = Reply("kill", id, "has already completed", None)
                 /\ UNCHANGED <<entries, tasks>>
            ELSE /\ entries' = [entries EXCEPT ![id] = kill_entry(e, now)]
                 /\ tasks' = IF e.join_handle # None /\ tasks[e.join_handle[1]].state = "running"
                             THEN [tasks EXCEPT ![e.join_handle[1]].state = "aborted"]
                             ELSE tasks
                 /\ last' = Reply("kill", id, "", None)
    /\ UNCHANGED <<waiters, pending, now, nticks>>

\* lines[a..b) of a Rust slice, 0-indexed.
Slice(ls, a, b) == SubSeq(ls, a + 1, b)

\* The OutputSlice get_output builds from the full lines.
output_slice(id, ls, start_line, end_line) ==
    LET total_lines == Len(ls)
        start_idx == Min(IF start_line = None THEN 0 ELSE start_line[1], total_lines)
        end_idx == Min(IF end_line = None THEN total_lines ELSE end_line[1], total_lines)
        effective_end == Min(end_idx, start_idx + max_slice)
    IN [id |-> id, start_line |-> start_idx, end_line |-> effective_end,
        total_lines |-> total_lines,
        lines |-> IF start_idx < effective_end
                  THEN Slice(ls, start_idx, effective_end) ELSE <<>>]

\* output_lines reading the live buffer also when a result is cached.
output_lines_live(e) == Buffer(e.output_buffer)

\* The lines get_output slices: the cached result's, else the live buffer's.
output_lines(e) == IF e.result # None THEN e.result[1].lines ELSE Buffer(e.output_buffer)

get_output(id, start_line, end_line) ==
    /\ last' = IF id \notin DOMAIN entries
               THEN Reply("get_output", id, "no process", None)
               ELSE Reply("get_output", id, "",
                          Some(output_slice(id, output_lines(entries[id]), start_line, end_line)))
    /\ UNCHANGED <<entries, tasks, waiters, pending, now, nticks>>

\* ------------------------------------------------- the runner task (run)

\* A reader task appends a line the child wrote; the readers are detached
\* tasks, so they go on after the runner was aborted.
task_read(t) ==
    /\ t \in DOMAIN tasks
    /\ tasks[t].cmd = "run"
    /\ tasks[t].state \in {"running", "aborted"}
    /\ Len(tasks[t].buf) < MaxLines
    /\ tasks' = [tasks EXCEPT ![t].buf = Append(@, Len(@) + 1)]
    /\ last' = NoReply
    /\ UNCHANGED <<entries, waiters, pending, now, nticks>>

\* run returns: rejected by the validator, or the child exited / was timed out
\* and the readers were joined.
run_result(task, code, to) ==
    IF task.cmd = "blocked" THEN ProcessResult(-1, FALSE, <<BlockedLine>>)
    ELSE ProcessResult(IF to THEN -1 ELSE code, to, task.buf)

task_exit(t, code, to) ==
    /\ t \in DOMAIN tasks
    /\ tasks[t].cmd \in Commands
    /\ tasks[t].state = "running"
    /\ tasks' = [tasks EXCEPT ![t].state = "finished",
                              ![t].res = Some(run_result(tasks[t], code, to))]
    /\ last' = NoReply
    /\ UNCHANGED <<entries, waiters, pending, now, nticks>>

\* Time passes.
tick(d) ==
    /\ nticks < MaxTicks
    /\ nticks' = nticks + 1
    /\ now' = now + d
    /\ last' = NoReply
    /\ UNCHANGED <<entries, tasks, waiters, pending>>

Option(S) == {None} \cup {Some(x) : x \in S}

\* A caller that is in no registry call.
IdleRegCall == [pc |-> "idle", op |-> "none", id |-> 0]

\* No lock of the registry held, no call between two steps.
RegLockIdle ==
    /\ map_guard = None
    /\ buf_guard = {}
    /\ rcalls = [c \in Callers |-> IdleRegCall]

Preloaded(n) == [i \in FillIds(n) |-> RunningEntry(i - 100)]

RegInit ==
    /\ \E n \in Preloads :
          /\ entries = Preloaded(n)
          /\ tasks = [i \in 1..n |-> SleepTask]
    /\ waiters = EmptyBag
    /\ pending = 0
    /\ now = 0
    /\ nticks = 0
    /\ last = NoReply
    /\ RegLockIdle

\* ------------------------------------------------ the locks of the registry

RegistryOps == {"status", "get_output", "kill", "list", "start", "wait"}

\* No task holds the lock of buffer b.
BufFree(b) == \A x \in buf_guard : x[1] # b

\* The buffer an operation locks while it holds the map lock, if any: status
\* and get_output read the buffer of an entry with no result, kill that of
\* an entry whose handle it took.
needs_buffer(op, ents, id) ==
    IF id \notin DOMAIN ents \/ ents[id].result # None THEN None
    ELSE IF op \in {"status", "get_output"} THEN Some(ents[id].output_buffer)
    ELSE IF op = "kill" /\ ents[id].join_handle # None THEN Some(ents[id].output_buffer)
    ELSE None

\* await_guard of a wait that keeps the map locked while it awaits the task.
await_guard_held(c) == Some(c)

\* The holder of the map lock once wait has taken the handle: the guard is a
\* local of the block that takes it, so nobody.
await_guard(c) == None

StartsInFlight == Cardinality({c \in Callers : rcalls[c].op = "start"})

\* A caller calls an operation of the registry; start and list prune first.
reg_enter(c, op, id) ==
    /\ rcalls[c].pc = "idle"
    /\ op = "start" => Launched + StartsInFlight < MaxTasks
    /\ rcalls' = [rcalls EXCEPT ![c] =
                     [pc |-> IF op \in {"start", "list"} THEN "prune" ELSE "lock",
                      op |-> op, id |-> id]]
    /\ last' = NoReply
    /\ UNCHANGED <<entries, tasks, waiters, pending, now, nticks, map_guard, buf_guard>>

\* prune_expired: its own lock region.
reg_prune(c) ==
    /\ rcalls[c].pc = "prune"
    /\ map_guard = None
    /\ prune_call
    /\ rcalls' = [rcalls EXCEPT ![c].pc = "lock"]
    /\ UNCHANGED <<map_guard, buf_guard>>

\* self.entries.lock().await returns.
reg_lock(c) ==
    /\ rcalls[c].pc = "lock"
    /\ map_guard = None
    /\ map_guard' = Some(c)
    /\ rcalls' = [rcalls EXCEPT ![c].pc = "map"]
    /\ last' = NoReply
    /\ UNCHANGED <<entries, tasks, waiters, pending, now, nticks, buf_guard>>

\* entry.output_buffer.lock().await returns, the map still locked.
reg_lock_buffer(c) ==
    LET b == needs_buffer(rcalls[c].op, entries, rcalls[c].id) IN
    /\ rcalls[c].pc = "map"
    /\ b # None
    /\ BufFree(b[1])
    /\ buf_guard' = buf_guard \cup {<<b[1], c>>}
    /\ rcalls' = [rcalls EXCEPT ![c].pc = "buf"]
    /\ last' = NoReply
    /\ UNCHANGED <<entries, tasks, waiters, pending, now, nticks, map_guard>>

\* The rest of the lock region: what the operation does to the map and
\* returns, and its guards dropped. A wait that took the handle goes on to
\* await it.
reg_finish(c) ==
    LET m == rcalls[c]
        awaits == m.op = "wait" /\ m.id \in DOMAIN entries
                  /\ wait_check(entries[m.id]) = "take"
    IN
    /\ \/ m.pc = "buf"
       \/ m.pc = "map" /\ needs_buffer(m.op, entries, m.id) = None
    /\ \/ m.op = "status" /\ status(m.id)
       \/ m.op = "get_output" /\ get_output(m.id, None, None)
       \/ m.op = "kill" /\ kill(m.id)
       \/ m.op = "list" /\ list
       \/ m.op = "start" /\ start(m.id, "run")
       \/ m.op = "wait" /\ \E timed \in BOOLEAN : wait_take(m.id, timed)
    /\ map_guard' = IF awaits THEN await_guard(c) ELSE None
    /\ buf_guard' = {x \in buf_guard : x[2] # c}
    /\ rcalls' = [rcalls EXCEPT ![c] = IF awaits THEN [m EXCEPT !.pc = "await"]
                                       ELSE IdleRegCall]

\* The awaited task is over: the second lock region of wait.
reg_wait_done(c, w) ==
    /\ rcalls[c].pc = "await"
    /\ w.id = rcalls[c].id
    /\ map_guard \in {None, Some(c)}
    /\ wait_cache(w)
    /\ map_guard' = None
    /\ rcalls' = [rcalls EXCEPT ![c] = IdleRegCall]
    /\ UNCHANGED buf_guard

\* The timeout of the wait elapses first.
reg_wait_timeout(c, w) ==
    /\ rcalls[c].pc = "await"
    /\ w.id = rcalls[c].id
    /\ wait_timeout(w)
    /\ map_guard' = IF map_guard = Some(c) THEN None ELSE map_guard
    /\ rcalls' = [rcalls EXCEPT ![c] = IdleRegCall]
    /\ UNCHANGED buf_guard

\* A reader task has a line and locks the buffer.
reader_lock(t) ==
    /\ t \in DOMAIN tasks
    /\ tasks[t].cmd = "run"
    /\ tasks[t].state \in {"running", "aborted"}
    /\ Len(tasks[t].buf) < MaxLines
    /\ BufFree(t)
    /\ buf_guard' = buf_guard \cup {<<t, 0>>}
    /\ last' = NoReply
    /\ UNCHANGED <<entries, tasks, waiters, pending, now, nticks, map_guard, rcalls>>

\* It pushes the line and drops the guard.
reader_push(t) ==
    /\ <<t, 0>> \in buf_guard
    /\ task_read(t)
    /\ buf_guard' = buf_guard \ {<<t, 0>>}
    /\ UNCHANGED <<map_guard, rcalls>>

\* run joins its readers, snapshots the buffer under its lock and returns.
runner_exit(t, code, to) ==
    /\ BufFree(t)
    /\ task_exit(t, code, to)
    /\ UNCHANGED <<map_guard, buf_guard, rcalls>>

RegLockNext ==
    \/ (\E c \in Callers, op \in RegistryOps, id \in Ids :
            reg_enter(c, op, id) /\ UNCHANGED <<sessvars, runvars, mgrvars, funvars, clockvars>>)
    \/ (\E c \in Callers : reg_prune(c) /\ UNCHANGED <<sessvars, runvars, mgrvars, funvars, clockvars>>)
    \/ (\E c \in Callers : reg_lock(c) /\ UNCHANGED <<sessvars, runvars, mgrvars, funvars, clockvars>>)
    \/ (\E c \in Callers : reg_lock_buffer(c) /\ UNCHANGED <<sessvars, runvars, mgrvars, funvars, clockvars>>)
    \/ (\E c \in Callers : reg_finish(c) /\ UNCHANGED <<sessvars, runvars, mgrvars, funvars, clockvars>>)
    \/ (\E c \in Callers, w \in BagToSet(waiters) :
            reg_wait_done(c, w) /\ UNCHANGED <<sessvars, runvars, mgrvars, funvars, clockvars>>)
    \/ (\E c \in Callers, w \in BagToSet(waiters) :
            reg_wait_timeout(c, w) /\ UNCHANGED <<sessvars, runvars, mgrvars, funvars, clockvars>>)
    \/ (\E t \in DOMAIN tasks : reader_lock(t) /\ UNCHANGED <<sessvars, runvars, mgrvars, funvars, clockvars>>)
    \/ (\E t \in DOMAIN tasks : reader_push(t) /\ UNCHANGED <<sessvars, runvars, mgrvars, funvars, clockvars>>)
    \/ (\E t \in DOMAIN tasks, code \in ExitCodes, to \in BOOLEAN :
            runner_exit(t, code, to) /\ UNCHANGED <<sessvars, runvars, mgrvars, funvars, clockvars>>)

\* ------------------------------------------------- one call of process::run

Pipes == {"stdout", "stderr"}

\* The buffer is a Vec<String>, written as the sequence of its runs of equal
\* lines: <<[line |-> "stdout", n |-> 3]>> is three lines read from stdout.
Lines(line, n) == IF n = 0 THEN <<>> ELSE <<[line |-> line, n |-> n]>>

\* buf.len()
RECURSIVE buf_len(_)
buf_len(buf) ==
    IF buf = <<>> THEN 0 ELSE buf[Len(buf)].n + buf_len(SubSeq(buf, 1, Len(buf) - 1))

\* The line at the end of the buffer.
buf_last(buf) == buf[Len(buf)].line

\* buf.push(line)
buf_push(buf, line) ==
    IF buf # <<>> /\ buf_last(buf) = line
    THEN [buf EXCEPT ![Len(buf)].n = @ + 1]
    ELSE Append(buf, [line |-> line, n |-> 1])

NoChild == [state |-> "none", code |-> None, sigkill |-> FALSE, written |-> 0,
            wrote |-> [p \in Pipes |-> 0]]

\* No run in progress.
RunIdle ==
    /\ run = [pc |-> "idle", command |-> "run", timeout |-> FALSE,
              waited |-> None, result |-> None]
    /\ child = NoChild
    /\ pipes = [p \in Pipes |-> 0]
    /\ readers = {}
    /\ buffer = <<>>

\* run is called: command and timeout_seconds are the caller's, the buffer is
\* new.
RunCalled ==
    /\ \E cmd \in Commands, to \in BOOLEAN :
          run = [pc |-> "validate", command |-> cmd, timeout |-> to,
                 waited |-> None, result |-> None]
    /\ child = NoChild
    /\ pipes = [p \in Pipes |-> 0]
    /\ readers = {}
    /\ buffer = <<>>

\* A run whose child has written n lines so far, all read into the buffer.
RunUnderWay(n) ==
    /\ \E to \in BOOLEAN :
          run = [pc |-> "waiting", command |-> "run", timeout |-> to,
                 waited |-> None, result |-> None]
    /\ child = [NoChild EXCEPT !.state = "running", !.wrote["stdout"] = n]
    /\ pipes = [p \in Pipes |-> 0]
    /\ readers = Pipes
    /\ buffer = Lines("stdout", n)

\* run_validate spawning the child before it looks at the validator's answer.
run_validate_late ==
    /\ run.pc = "validate"
    /\ child' = [child EXCEPT !.state = "running"]
    /\ readers' = Pipes
    /\ run' = IF run.command = "blocked"
              THEN [run EXCEPT !.pc = "done",
                       !.result = Some(ProcessResult(-1, FALSE, Lines(BlockedLine, 1)))]
              ELSE [run EXCEPT !.pc = "waiting"]
    /\ UNCHANGED <<pipes, buffer>>

\* validate_command, then either the synthetic result or the spawn of the
\* child and of the two reader tasks.
run_validate ==
    /\ run.pc = "validate"
    /\ IF run.command = "blocked"
       THEN /\ run' = [run EXCEPT !.pc = "done",
                          !.result = Some(ProcessResult(-1, FALSE, Lines(BlockedLine, 1)))]
            /\ UNCHANGED <<child, readers>>
       ELSE /\ run' = [run EXCEPT !.pc = "waiting"]
            /\ child' = [child EXCEPT !.state = "running"]
            /\ readers' = Pipes
    /\ UNCHANGED <<pipes, buffer>>

\* The child writes a line to pipe p (it blocks while the pipe is full, and
\* writes nothing into a pipe whose read end is closed).
child_write(p) ==
    /\ child.state = "running"
    /\ child.written < MaxChildLines
    /\ pipes[p] < PipeCap
    /\ p \in readers
    /\ pipes' = [pipes EXCEPT ![p] = @ + 1]
    /\ child' = [child EXCEPT !.written = @ + 1, !.wrote[p] = @ + 1]
    /\ UNCHANGED <<run, readers, buffer>>

\* The child exits by itself; code is status.code().
child_exit(code) ==
    /\ child.state = "running"
    /\ child' = [child EXCEPT !.state = "exited", !.code = code]
    /\ UNCHANGED <<run, pipes, readers, buffer>>

\* buffer_push with the cap compared by <=.
buffer_push_over(buf, line) ==
    IF buf_len(buf) <= PROCESS_MAX_OUTPUT_LINES THEN buf_push(buf, line) ELSE buf

\* buf.push(line) under the cap.
buffer_push(buf, line) ==
    IF buf_len(buf) < PROCESS_MAX_OUTPUT_LINES THEN buf_push(buf, line) ELSE buf

\* One iteration of a reader task: a line is taken from the pipe and pushed.
reader_read(p) ==
    /\ p \in readers
    /\ pipes[p] > 0
    /\ pipes' = [pipes EXCEPT ![p] = @ - 1]
    /\ buffer' = buffer_push(buffer, p)
    /\ UNCHANGED <<run, child, readers>>

\* next_line returns Err (the bytes of the line are not UTF-8): the while let
\* loop of the reader task ends, the task finishes and drops its end of the
\* pipe with what is still in it.
reader_error(p) ==
    /\ p \in readers
    /\ pipes[p] > 0
    /\ pipes' = [pipes EXCEPT ![p] = 0]
    /\ readers' = readers \ {p}
    /\ UNCHANGED <<run, child, buffer>>

\* A reader task reads end of file and finishes.
reader_eof(p) ==
    /\ p \in readers
    /\ pipes[p] = 0
    /\ child.state \in {"exited", "killed"}
    /\ readers' = readers \ {p}
    /\ UNCHANGED <<run, child, pipes, buffer>>

\* status.code().unwrap_or(-1)
unwrap_or(code, d) == IF code = None THEN d ELSE code[1]

\* wait_outcome reporting the status of the wait that follows kill_process.
wait_outcome_status(timed_out, code) == <<timed_out, unwrap_or(code, -1)>>

\* (timed_out, exit_code) of the wait on the child.
wait_outcome(timed_out, code) ==
    IF timed_out THEN <<TRUE, -1>> ELSE <<FALSE, unwrap_or(code, -1)>>

\* child.wait() returns before the timeout, or without one.
run_child_done ==
    /\ run.pc = "waiting"
    /\ child.state = "exited"
    /\ run' = [run EXCEPT !.pc = "joining",
                          !.waited = Some(wait_outcome(FALSE, child.code))]
    /\ UNCHANGED <<child, pipes, readers, buffer>>

\* The timeout elapses with the wait still pending.
run_timeout ==
    /\ run.pc = "waiting"
    /\ run.timeout
    /\ child.state = "running"
    /\ run' = [run EXCEPT !.pc = "killing"]
    /\ UNCHANGED <<child, pipes, readers, buffer>>

\* kill_process: SIGKILL to the child's process group.
kill_process ==
    /\ run.pc = "killing"
    /\ child' = [child EXCEPT !.sigkill = TRUE,
                              !.state = IF @ = "running" THEN "killed" ELSE @]
    /\ run' = [run EXCEPT !.pc = "reaping"]
    /\ UNCHANGED <<pipes, readers, buffer>>

\* The wait after kill_process returns.
run_reap ==
    /\ run.pc = "reaping"
    /\ child.state # "running"
    /\ run' = [run EXCEPT !.pc = "joining",
                          !.waited = Some(wait_outcome(TRUE, child.code))]
    /\ UNCHANGED <<child, pipes, readers, buffer>>

\* Both reader tasks are joined, the buffer is cloned into the result.
run_join ==
    /\ run.pc = "joining"
    /\ readers = {}
    /\ run' = [run EXCEPT !.pc = "done",
                          !.result = Some(ProcessResult(run.waited[1][2], run.waited[1][1], buffer))]
    /\ UNCHANGED <<child, pipes, readers, buffer>>

\* An empty registry.
RegIdle ==
    /\ entries = <<>>
    /\ tasks = <<>>
    /\ waiters = EmptyBag
    /\ pending = 0
    /\ now = 0
    /\ nticks = 0
    /\ last = NoReply
    /\ RegLockIdle

\* ------------------------------------------------------ one ShellSession

\* A cleaned line of the PTY stream. kind "start", "end" (with the exit code
\* bash printed) and "recover" are marker lines of exec k; "out" is a line the
\* command of exec k printed, "empty" an empty one.
Line(kind, k, code) == [kind |-> kind, k |-> k, code |-> code]

\* cleaned.contains(MARKER_PREFIX)
contains_marker_prefix(l) == l.kind \in {"start", "end", "recover"}

\* The wrapper exec writes for its command: echo START; { command; } 2>&1;
\* __agentsh_ec=$?; echo END"$__agentsh_ec"__  (the last two as one item).
Wrapper(k) == <<Line("start", k, 0), Line("cmd", k, 0), Line("end", k, 0)>>

ExecLocals(k) ==
    [pc |-> "reading", k |-> k, found_start |-> FALSE, lines |-> <<>>,
     timed_out |-> FALSE, recovered_by |-> "", result |-> None]

SessionExecResult(code, ls, to) == [exit_code |-> code, lines |-> ls, timed_out |-> to]

Returned(x, res) == [x EXCEPT !.pc = "idle", !.result = Some(res)]

\* lines.push(cleaned), under the cap.
push(ls, l) == IF Len(ls) < MAX_OUTPUT_LINES THEN Append(ls, l.k) ELSE ls

\* The log after the exec call whose locals are x took a step: its result is
\* recorded when it returned.
Logged(lg, x) ==
    IF x.pc = "idle"
    THEN [lg EXCEPT !.results = Append(@, [k |-> x.k, res |-> x.result[1]])]
    ELSE lg

\* The log after the foreground command f ended with exit status code.
Ended(lg, f, code) ==
    [lg EXCEPT !.ended = [j \in (DOMAIN @) \cup {f.k} |->
                             IF j = f.k THEN [n |-> f.n, status |-> code] ELSE @[j]]]

\* exec on a command the validator rejects: a synthetic result, nothing written.
exec_blocked ==
    /\ ex.pc = "idle"
    /\ Len(log.results) < MaxExecs
    /\ ex' = [pc |-> "idle", k |-> 0, found_start |-> FALSE, lines |-> <<>>,
              timed_out |-> FALSE, recovered_by |-> "",
              result |-> Some(SessionExecResult(-1, <<BlockedLine>>, FALSE))]
    /\ log' = Logged(log, ex')
    /\ UNCHANGED <<tty_in, fg, ec, stream, nexec>>

\* exec up to the read loop: a fresh uuid, the wrapper written to the PTY.
exec_send ==
    /\ ex.pc = "idle"
    /\ nexec < MaxExecs
    /\ nexec' = nexec + 1
    /\ tty_in' = tty_in \o Wrapper(nexec + 1)
    /\ ex' = ExecLocals(nexec + 1)
    /\ UNCHANGED <<fg, ec, stream, log>>

\* read_line collecting lines before the start marker was seen.
read_line_nostart(x, l) ==
    IF l.kind = "start" /\ l.k = x.k THEN [x EXCEPT !.found_start = TRUE]
    ELSE IF l.kind = "end" /\ l.k = x.k
         THEN Returned(x, SessionExecResult(l.code, x.lines, x.timed_out))
    ELSE IF contains_marker_prefix(l) THEN x
    ELSE [x EXCEPT !.lines = push(@, l)]

\* One iteration of the read loop on a line that was read.
read_line(x, l) ==
    IF ~x.found_start
    THEN IF l.kind = "start" /\ l.k = x.k THEN [x EXCEPT !.found_start = TRUE] ELSE x
    ELSE IF l.kind = "end" /\ l.k = x.k
         THEN Returned(x, SessionExecResult(l.code, x.lines, x.timed_out))
    ELSE IF contains_marker_prefix(l) THEN x
    ELSE [x EXCEPT !.lines = push(@, l)]

exec_read ==
    /\ ex.pc = "reading"
    /\ stream # <<>>
    /\ ex' = read_line(ex, Head(stream))
    /\ stream' = Tail(stream)
    /\ log' = Logged(log, ex')
    /\ UNCHANGED <<tty_in, fg, ec, nexec>>

\* The read times out: ^C twice, then the recovery marker is written. The ^C
\* may or may not end the foreground command, and the terminal may or may not
\* flush the wrapper lines bash has not read yet.
exec_timeout(killed, flush) ==
    /\ ex.pc = "reading"
    /\ stream = <<>>
    /\ fg' = IF killed THEN None ELSE fg
    /\ ec' = IF killed /\ fg # None THEN SIGINT_STATUS ELSE ec
    /\ tty_in' = (IF flush THEN <<>> ELSE tty_in) \o <<Line("recover", ex.k, 0)>>
    /\ ex' = [ex EXCEPT !.pc = "recovering", !.timed_out = TRUE]
    /\ log' = IF killed /\ fg # None THEN Ended(log, fg[1], SIGINT_STATUS) ELSE log
    /\ UNCHANGED <<stream, nexec>>

\* recovery_exit_code taking the code of the end marker the recovery read.
recovery_exit_code_marker(how, code) == IF how = "end" THEN code ELSE TIMEOUT_EXIT_CODE

\* exit_code after the recovery loop.
recovery_exit_code(how, code) == TIMEOUT_EXIT_CODE

\* exec's return after the recovery loop ended by `how`.
recovered(x, how, code) ==
    [Returned(x, SessionExecResult(recovery_exit_code(how, code), x.lines, x.timed_out))
        EXCEPT !.recovered_by = how]

\* One iteration of the recovery loop on a line that was read.
recover_line(x, l) ==
    IF l.kind = "recover" /\ l.k = x.k THEN recovered(x, "recover", l.code)
    ELSE IF l.kind = "end" /\ l.k = x.k THEN recovered(x, "end", l.code)
    ELSE IF Len(x.lines) < MAX_OUTPUT_LINES /\ ~contains_marker_prefix(l) /\ l.kind # "empty"
         THEN [x EXCEPT !.lines = Append(@, l.k)]
    ELSE x

exec_recover_read ==
    /\ ex.pc = "recovering"
    /\ stream # <<>>
    /\ ex' = recover_line(ex, Head(stream))
    /\ stream' = Tail(stream)
    /\ log' = Logged(log, ex')
    /\ UNCHANGED <<tty_in, fg, ec, nexec>>

\* A recovery read gets nothing for 3 seconds.
exec_recover_stall ==
    /\ ex.pc = "recovering"
    /\ stream = <<>>
    /\ ex' = recovered(ex, "stall", 0)
    /\ log' = Logged(log, ex')
    /\ UNCHANGED <<tty_in, fg, ec, stream, nexec>>

\* bash reads the next wrapper line and runs it.
bash_next ==
    /\ fg = None
    /\ tty_in # <<>>
    /\ tty_in' = Tail(tty_in)
    /\ LET item == Head(tty_in) IN
       IF item.kind = "cmd"
       THEN /\ fg' = Some([k |-> item.k, n |-> 0])
            /\ UNCHANGED <<stream, ec>>
       ELSE /\ stream' = Append(stream, [item EXCEPT !.code = IF item.kind = "end" THEN ec ELSE 0])
            /\ ec' = 0
            /\ UNCHANGED fg
    /\ UNCHANGED <<nexec, ex, log>>

\* The foreground command prints a line.
bash_output(kind) ==
    /\ fg # None
    /\ fg[1].n < MaxOut
    /\ stream' = Append(stream, Line(kind, fg[1].k, 0))
    /\ fg' = Some([fg[1] EXCEPT !.n = @ + 1])
    /\ UNCHANGED <<tty_in, ec, nexec, ex, log>>

\* The foreground command exits.
bash_cmd_exit(code) ==
    /\ fg # None
    /\ fg' = None
    /\ ec' = code
    /\ log' = Ended(log, fg[1], code)
    /\ UNCHANGED <<tty_in, stream, nexec, ex>>

SessInit ==
    /\ tty_in = <<>>
    /\ fg = None
    /\ ec = 0
    /\ stream = <<>>
    /\ nexec = 0
    /\ ex = [pc |-> "idle", k |-> 0, found_start |-> FALSE, lines |-> <<>>,
             timed_out |-> FALSE, recovered_by |-> "", result |-> None]
    /\ log = [ended |-> <<>>, results |-> <<>>]

\* ------------------------------------------------------ the SessionManager

SessIds == 1..MaxSessIds
\* Ids of the sessions that were created before the window the model
\* explores, when n of them are in the map.
OldSessIds(n) == {100 + i : i \in 1..n}
\* How many of them there may be: none, one below the cap, the cap.
SessPreloads == {0, MAX_SESSIONS - 1, MAX_SESSIONS}

\* What the model keeps of a ShellSession: whether its bash is running
\* (is_alive), whether the variable an "export" command sets is set in it,
\* how many times its PTY was written to since it was created, and what was
\* written to it, in the order of the writes.
NewSession == [alive |-> TRUE, marker |-> FALSE, written |-> 0, pty |-> <<>>]

\* A caller that is in no manager call.
IdleCall == [pc |-> "idle", op |-> "none", id |-> 0, cmd |-> ""]

\* The locals of close when no close was called yet.
NoClose == [pc |-> "idle", id |-> 0, child |-> "none", writer |-> FALSE,
            reader |-> FALSE, wrote_exit |-> FALSE, sigkill |-> FALSE,
            waited |-> 0, graceful |-> 0]

\* The lock free, no call in progress.
LockIdle ==
    /\ guard = None
    /\ mcalls = [c \in Callers |-> IdleCall]
    /\ cl = NoClose

\* No session; nothing returned yet.
MgrIdle ==
    /\ sessions = <<>>
    /\ mlast = NoReply
    /\ LockIdle

\* No pure function under evaluation, no clock running.
FunIdle ==
    /\ call = None
    /\ ret = None
    /\ timer = [timeout |-> 0, elapsed |-> 0, since_read |-> 0]

\* create_check without the contains_key test.
create_check_nodup(sess, id) ==
    IF Cardinality(DOMAIN sess) >= MAX_SESSIONS THEN "too many sessions"
    ELSE ""

\* create_check letting a create through when the cap is already reached.
create_check_over(sess, id) ==
    IF id \in DOMAIN sess THEN "already exists"
    ELSE IF Cardinality(DOMAIN sess) > MAX_SESSIONS THEN "too many sessions"
    ELSE ""

\* What create answers under the lock: "" when the session may be spawned.
create_check(sess, id) ==
    IF id \in DOMAIN sess THEN "already exists"
    ELSE IF Cardinality(DOMAIN sess) >= MAX_SESSIONS THEN "too many sessions"
    ELSE ""

\* SessionManager::create; spawned tells whether ShellSession::new succeeded.
create(id, spawned) ==
    LET err == create_check(sessions, id) IN
    IF err # ""
    THEN /\ mlast' = Reply("create", id, err, None)
         /\ UNCHANGED sessions
    ELSE IF ~spawned
    THEN /\ mlast' = Reply("create", id, "failed to spawn", None)
         /\ UNCHANGED sessions
    ELSE /\ sessions' = Insert(sessions, id, NewSession)
         /\ mlast' = Reply("create", id, "", Some([id |-> id, alive |-> TRUE]))

\* session_check without the is_alive test.
session_check_noalive(sess, id) ==
    IF id \notin DOMAIN sess THEN "no session"
    ELSE ""

\* The lookup and liveness test exec and send begin with.
session_check(sess, id) ==
    IF id \notin DOMAIN sess THEN "no session"
    ELSE IF ~sess[id].alive THEN "is dead"
    ELSE ""

\* Commands an exec is called with: "export" sets the variable, "echo" prints
\* it, "blocked" is rejected by the validator, "exit" ends the shell.
SessCommands == {"export", "echo", "blocked", "exit"}

\* exec_effect of a shell whose variables do not outlive the command.
exec_effect_fresh(s, cmd) ==
    IF cmd = "blocked" THEN s
    ELSE [s EXCEPT !.written = @ + 1,
                   !.pty = Append(@, cmd),
                   !.marker = (cmd = "export"),
                   !.alive = IF cmd = "exit" THEN FALSE ELSE @]

\* exec_effect of a session that spawns a shell for every command.
exec_effect_respawn(s, cmd) ==
    IF cmd = "blocked" THEN s
    ELSE [s EXCEPT !.written = @ + 1,
                   !.pty = <<cmd>>,
                   !.marker = IF cmd = "export" THEN TRUE ELSE @,
                   !.alive = IF cmd = "exit" THEN FALSE ELSE @]

\* The session after ShellSession::exec ran cmd in it.
exec_effect(s, cmd) ==
    IF cmd = "blocked" THEN s
    ELSE [s EXCEPT !.written = @ + 1,
                   !.pty = Append(@, cmd),
                   !.marker = IF cmd = "export" THEN TRUE ELSE @,
                   !.alive = IF cmd = "exit" THEN FALSE ELSE @]

\* What ShellSession::exec returns for cmd in session s.
exec_result(s, cmd, timed_out) ==
    IF cmd = "blocked" THEN SessionExecResult(-1, <<BlockedLine>>, FALSE)
    ELSE IF timed_out THEN SessionExecResult(TIMEOUT_EXIT_CODE, <<>>, TRUE)
    ELSE SessionExecResult(0, IF cmd = "echo" THEN <<s.marker>> ELSE <<>>, FALSE)

\* SessionManager::exec, the map locked from the lookup to the return.
manager_exec(id, cmd, timed_out) ==
    LET err == session_check(sessions, id) IN
    IF err # ""
    THEN /\ mlast' = Reply("exec", id, err, None)
         /\ UNCHANGED sessions
    ELSE /\ cmd # "blocked" => sessions[id].written < MaxWrites
         /\ cmd \in {"blocked", "exit"} => ~timed_out
         /\ sessions' = [sessions EXCEPT ![id] = exec_effect(@, cmd)]
         /\ mlast' = IF cmd = "exit"
                     THEN Reply("exec", id, "session bash process exited unexpectedly", None)
                     ELSE Reply("exec", id, "", Some(exec_result(sessions[id], cmd, timed_out)))

\* SessionManager::send with or without input.
send(id, input) ==
    LET err == session_check(sessions, id) IN
    IF err # ""
    THEN /\ mlast' = Reply("send", id, err, None)
         /\ UNCHANGED sessions
    ELSE /\ input # None => sessions[id].written < MaxWrites
         /\ sessions' = IF input # None
                        THEN [sessions EXCEPT ![id].written = @ + 1,
                                              ![id].pty = Append(@, input[1])]
                        ELSE sessions
         /\ mlast' = Reply("send", id, "", None)

\* SessionManager::list
manager_list ==
    /\ mlast' = Reply("list", 0, "", [i \in DOMAIN sessions |-> sessions[i].alive])
    /\ UNCHANGED sessions

\* SessionManager::close
close(id) ==
    IF id \notin DOMAIN sessions
    THEN /\ mlast' = Reply("close", id, "no session", None)
         /\ UNCHANGED sessions
    ELSE /\ sessions' = [i \in (DOMAIN sessions) \ {id} |-> sessions[i]]
         /\ mlast' = Reply("close", id, "", None)

\* The bash of a session exits with no call in progress.
shell_exit(id) ==
    /\ id \in DOMAIN sessions
    /\ sessions[id].alive
    /\ sessions' = [sessions EXCEPT ![id].alive = FALSE]
    /\ mlast' = NoReply

MgrInit ==
    /\ FunIdle
    /\ RegIdle
    /\ SessInit
    /\ RunIdle
    /\ \E n \in SessPreloads : sessions = [i \in OldSessIds(n) |-> NewSession]
    /\ mlast = NoReply
    /\ LockIdle

MgrNext ==
    \/ (\E id \in SessIds, spawned \in BOOLEAN :
            create(id, spawned) /\ UNCHANGED <<regvars, sessvars, runvars, funvars, clockvars, lockvars>>)
    \/ (\E id \in SessIds, cmd \in SessCommands, to \in BOOLEAN :
            manager_exec(id, cmd, to) /\ UNCHANGED <<regvars, sessvars, runvars, funvars, clockvars, lockvars>>)
    \/ (\E id \in SessIds, input \in Option({"text"}) :
            send(id, input) /\ UNCHANGED <<regvars, sessvars, runvars, funvars, clockvars, lockvars>>)
    \/ (manager_list /\ UNCHANGED <<regvars, sessvars, runvars, funvars, clockvars, lockvars>>)
    \/ (\E id \in SessIds \cup OldSessIds(1) :
            close(id) /\ UNCHANGED <<regvars, sessvars, runvars, funvars, clockvars, lockvars>>)
    \/ (\E id \in SessIds \cup OldSessIds(1) :
            shell_exit(id) /\ UNCHANGED <<regvars, sessvars, runvars, funvars, clockvars, lockvars>>)

\* The session manager and the shells of its sessions.
SpecManager == MgrInit /\ [][MgrNext]_vars

\* ------------------------------------------- the lock of the session map

\* guard_scope dropping the guard of exec and send once the session is found.
guard_scope_lookup(op) == IF op \in {"exec", "send"} THEN "lookup" ELSE "return"

\* Where the MutexGuard that an operation takes on SessionManager.sessions is
\* dropped: it is a local of the operation, so at the operation's return.
guard_scope(op) == "return"

ManagerOps == {"create", "exec", "send", "list", "close"}
LockCommands == {"export", "echo"}

\* A caller calls an operation of the manager and queues for the lock.
call_enter(c, op, id, cmd) ==
    /\ mcalls[c].pc = "idle"
    /\ mcalls' = [mcalls EXCEPT ![c] = [pc |-> "lock", op |-> op, id |-> id, cmd |-> cmd]]
    /\ mlast' = NoReply
    /\ UNCHANGED <<sessions, guard>>

\* self.sessions.lock().await returns.
lock_sessions(c) ==
    /\ mcalls[c].pc = "lock"
    /\ guard = None
    /\ guard' = Some(c)
    /\ mcalls' = [mcalls EXCEPT ![c].pc = "held"]
    /\ mlast' = NoReply
    /\ UNCHANGED sessions

\* exec and send found their session alive: the command is written to its
\* PTY and the call awaits the shell's output.
command_begin(c) ==
    /\ mcalls[c].pc = "held"
    /\ mcalls[c].op \in {"exec", "send"}
    /\ session_check(sessions, mcalls[c].id) = ""
    /\ mcalls' = [mcalls EXCEPT ![c].pc = "running"]
    /\ guard' = IF guard_scope(mcalls[c].op) = "lookup" THEN None ELSE guard
    /\ mlast' = NoReply
    /\ UNCHANGED sessions

\* The operation returns: what it did to the map, its reply, and the guard
\* dropped.
call_return(c) ==
    LET m == mcalls[c] IN
    /\ \/ m.pc = "running"
       \/ /\ m.pc = "held"
          /\ m.op \in {"exec", "send"} => session_check(sessions, m.id) # ""
    /\ \/ m.op = "create" /\ \E spawned \in BOOLEAN : create(m.id, spawned)
       \/ m.op = "exec" /\ \E to \in BOOLEAN : manager_exec(m.id, m.cmd, to)
       \/ m.op = "send" /\ send(m.id, Some(m.cmd))
       \/ m.op = "list" /\ manager_list
       \/ m.op = "close" /\ close(m.id)
    /\ mcalls' = [mcalls EXCEPT ![c] = IdleCall]
    /\ guard' = IF guard = Some(c) THEN None ELSE guard

LockNext ==
    \/ (\E c \in Callers, op \in ManagerOps, id \in SessIds, cmd \in LockCommands :
            call_enter(c, op, id, cmd) /\ UNCHANGED <<regvars, sessvars, runvars, funvars, clockvars, cl>>)
    \/ (\E c \in Callers : lock_sessions(c) /\ UNCHANGED <<regvars, sessvars, runvars, funvars, clockvars, cl>>)
    \/ (\E c \in Callers : command_begin(c) /\ UNCHANGED <<regvars, sessvars, runvars, funvars, clockvars, cl>>)
    \/ (\E c \in Callers : call_return(c) /\ UNCHANGED <<regvars, sessvars, runvars, funvars, clockvars, cl>>)

LockInit == RegIdle /\ SessInit /\ RunIdle /\ MgrIdle /\ FunIdle

\* Concurrent callers of one session manager.
SpecManagerLock == LockInit /\ [][LockNext]_vars

RegLockInit == RegIdle /\ SessInit /\ RunIdle /\ MgrIdle /\ FunIdle

\* Concurrent callers of one registry, its runner and reader tasks.
SpecRegistryLock == RegLockInit /\ [][RegLockNext]_vars

\* The same under the tokio scheduler: a task that can step does, and the
\* mutexes hand the lock to their waiters in turn.
SpecRegistryLockFair ==
    /\ SpecRegistryLock
    /\ \A c \in Callers :
          /\ SF_vars(reg_prune(c) /\ UNCHANGED <<sessvars, runvars, mgrvars, funvars, clockvars>>)
          /\ SF_vars(reg_lock(c) /\ UNCHANGED <<sessvars, runvars, mgrvars, funvars, clockvars>>)
          /\ SF_vars(reg_lock_buffer(c) /\ UNCHANGED <<sessvars, runvars, mgrvars, funvars, clockvars>>)
          /\ WF_vars(reg_finish(c) /\ UNCHANGED <<sessvars, runvars, mgrvars, funvars, clockvars>>)
    /\ \A t \in 1..MaxTasks :
          WF_vars(reader_push(t) /\ UNCHANGED <<sessvars, runvars, mgrvars, funvars, clockvars>>)

\* ------------------------------------------------- one call of close

\* The timeouts of the two waits of close, in seconds.
CLOSE_WAIT_SECONDS == 2
KILL_WAIT_SECONDS == 1

\* remove leaving the session in the map.
remove_keep(sess, id) == sess

\* sessions.remove(id)
remove(sess, id) == [i \in (DOMAIN sess) \ {id} |-> sess[i]]

\* close takes the lock and removes the session, or finds none.
close_call(id) ==
    /\ cl.pc = "idle"
    /\ IF id \notin DOMAIN sessions
       THEN /\ mlast' = Reply("close", id, "no session", None)
            /\ UNCHANGED <<sessions, cl>>
       ELSE /\ sessions' = remove(sessions, id)
            /\ cl' = [pc |-> "exit", id |-> id,
                      child |-> IF sessions[id].alive THEN "running" ELSE "exited",
                      writer |-> TRUE, reader |-> TRUE, wrote_exit |-> FALSE,
                      sigkill |-> FALSE, waited |-> 0, graceful |-> 0]
            /\ mlast' = NoReply

\* session.raw_send("exit\n"), its outcome ignored.
close_send_exit ==
    /\ cl.pc = "exit"
    /\ cl' = [cl EXCEPT !.pc = "drop", !.wrote_exit = TRUE]
    /\ mlast' = NoReply
    /\ UNCHANGED sessions

\* drop(writer); drop(reader): the master is closed, bash is sent SIGHUP.
close_drop ==
    /\ cl.pc = "drop"
    /\ cl' = [cl EXCEPT !.pc = "wait", !.writer = FALSE, !.reader = FALSE]
    /\ mlast' = NoReply
    /\ UNCHANGED sessions

\* bash exits: on the exit command, on SIGHUP, on SIGKILL or of its own; it
\* may also stay, a SIGHUP being ignorable and SIGKILL taking its time.
close_child_exits ==
    /\ cl.pc # "idle"
    /\ cl.child = "running"
    /\ cl' = [cl EXCEPT !.child = "exited"]
    /\ mlast' = NoReply
    /\ UNCHANGED sessions

\* The timeout of the wait close is in.
wait_limit(pc) == IF pc = "wait" THEN CLOSE_WAIT_SECONDS ELSE KILL_WAIT_SECONDS

\* A second passes while close waits on the child.
close_second ==
    /\ cl.pc \in {"wait", "wait_kill"}
    /\ cl.child = "running"
    /\ cl.waited < wait_limit(cl.pc)
    /\ cl' = [cl EXCEPT !.waited = @ + 1,
                        !.graceful = IF cl.pc = "wait" THEN @ + 1 ELSE @]
    /\ mlast' = NoReply
    /\ UNCHANGED sessions

\* child.wait() returns within its timeout: close returns.
close_wait_done ==
    /\ cl.pc \in {"wait", "wait_kill"}
    /\ cl.child = "exited"
    /\ cl' = [cl EXCEPT !.pc = "idle"]
    /\ mlast' = Reply("close", cl.id, "", None)
    /\ UNCHANGED sessions

\* The first wait times out: child.start_kill(), then the second wait.
close_wait_timeout ==
    /\ cl.pc = "wait"
    /\ cl.waited >= CLOSE_WAIT_SECONDS
    /\ cl' = [cl EXCEPT !.pc = "wait_kill", !.sigkill = TRUE, !.waited = 0]
    /\ mlast' = NoReply
    /\ UNCHANGED sessions

\* The second wait times out: close returns all the same.
close_kill_timeout ==
    /\ cl.pc = "wait_kill"
    /\ cl.waited >= KILL_WAIT_SECONDS
    /\ cl' = [cl EXCEPT !.pc = "idle"]
    /\ mlast' = Reply("close", cl.id, "", None)
    /\ UNCHANGED sessions

CloseSteps ==
    \/ close_send_exit
    \/ close_drop
    \/ close_second
    \/ close_wait_done
    \/ close_wait_timeout
    \/ close_kill_timeout

CloseNext ==
    \/ (\E id \in SessIds \cup OldSessIds(1) :
            close_call(id) /\ UNCHANGED <<regvars, sessvars, runvars, funvars, clockvars, guard, mcalls>>)
    \/ (close_send_exit /\ UNCHANGED <<regvars, sessvars, runvars, funvars, clockvars, guard, mcalls>>)
    \/ (close_drop /\ UNCHANGED <<regvars, sessvars, runvars, funvars, clockvars, guard, mcalls>>)
    \/ (close_child_exits /\ UNCHANGED <<regvars, sessvars, runvars, funvars, clockvars, guard, mcalls>>)
    \/ (close_second /\ UNCHANGED <<regvars, sessvars, runvars, funvars, clockvars, guard, mcalls>>)
    \/ (close_wait_done /\ UNCHANGED <<regvars, sessvars, runvars, funvars, clockvars, guard, mcalls>>)
    \/ (close_wait_timeout /\ UNCHANGED <<regvars, sessvars, runvars, funvars, clockvars, guard, mcalls>>)
    \/ (close_kill_timeout /\ UNCHANGED <<regvars, sessvars, runvars, funvars, clockvars, guard, mcalls>>)
    \/ (\E id \in SessIds, spawned \in BOOLEAN :
            cl.pc = "idle" /\ create(id, spawned)
            /\ UNCHANGED <<regvars, sessvars, runvars, funvars, clockvars, lockvars>>)
    \/ (cl.pc = "idle" /\ manager_list
            /\ UNCHANGED <<regvars, sessvars, runvars, funvars, clockvars, lockvars>>)
    \/ (\E id \in SessIds \cup OldSessIds(1) :
            cl.pc = "idle" /\ shell_exit(id)
            /\ UNCHANGED <<regvars, sessvars, runvars, funvars, clockvars, lockvars>>)

\* One close at a time, between creates and lists, on a manager with 0, 9 or
\* 10 sessions.
SpecClose == MgrInit /\ [][CloseNext]_vars

\* The same with the clock running and the task of close scheduled.
SpecCloseFair ==
    /\ SpecClose
    /\ WF_vars(CloseSteps /\ UNCHANGED <<regvars, sessvars, runvars, funvars, clockvars, guard, mcalls>>)

Init == RegInit /\ SessInit /\ RunIdle /\ MgrIdle /\ FunIdle

Next ==
    \/ (prune_call /\ UNCHANGED <<sessvars, runvars, mgrvars, funvars, clockvars, reglockvars>>)
    \/ (\E id \in Ids, cmd \in Commands : start(id, cmd) /\ UNCHANGED <<sessvars, runvars, mgrvars, funvars, clockvars, reglockvars>>)
    \/ (\E id \in Ids, res \in StoredResults : store_result(id, res) /\ UNCHANGED <<sessvars, runvars, mgrvars, funvars, clockvars, reglockvars>>)
    \/ (list /\ UNCHANGED <<sessvars, runvars, mgrvars, funvars, clockvars, reglockvars>>)
    \/ (\E id \in Ids, timed \in BOOLEAN : wait_take(id, timed) /\ UNCHANGED <<sessvars, runvars, mgrvars, funvars, clockvars, reglockvars>>)
    \/ (\E w \in BagToSet(waiters) : wait_timeout(w) /\ UNCHANGED <<sessvars, runvars, mgrvars, funvars, clockvars, reglockvars>>)
    \/ (\E w \in BagToSet(waiters) : wait_cache(w) /\ UNCHANGED <<sessvars, runvars, mgrvars, funvars, clockvars, reglockvars>>)
    \/ (\E id \in Ids : status(id) /\ UNCHANGED <<sessvars, runvars, mgrvars, funvars, clockvars, reglockvars>>)
    \/ (\E id \in Ids : kill(id) /\ UNCHANGED <<sessvars, runvars, mgrvars, funvars, clockvars, reglockvars>>)
    \/ (\E id \in Ids : get_output(id, None, None) /\ UNCHANGED <<sessvars, runvars, mgrvars, funvars, clockvars, reglockvars>>)
    \/ (\E t \in DOMAIN tasks : task_read(t) /\ UNCHANGED <<sessvars, runvars, mgrvars, funvars, clockvars, reglockvars>>)
    \/ (\E t \in DOMAIN tasks, code \in ExitCodes, to \in BOOLEAN :
            task_exit(t, code, to) /\ UNCHANGED <<sessvars, runvars, mgrvars, funvars, clockvars, reglockvars>>)
    \/ (\E d \in {COMPLETED_TTL - 1, COMPLETED_TTL} : tick(d) /\ UNCHANGED <<sessvars, runvars, mgrvars, funvars, clockvars, reglockvars>>)

\* The registry, its runner tasks and the clock.
Spec == Init /\ [][Next]_vars

SessNext ==
    \/ (exec_blocked /\ UNCHANGED <<regvars, runvars, mgrvars, funvars, clockvars>>)
    \/ (exec_send /\ UNCHANGED <<regvars, runvars, mgrvars, funvars, clockvars>>)
    \/ (exec_read /\ UNCHANGED <<regvars, runvars, mgrvars, funvars, clockvars>>)
    \/ (\E killed \in BOOLEAN, flush \in BOOLEAN : exec_timeout(killed, flush) /\ UNCHANGED <<regvars, runvars, mgrvars, funvars, clockvars>>)
    \/ (exec_recover_read /\ UNCHANGED <<regvars, runvars, mgrvars, funvars, clockvars>>)
    \/ (exec_recover_stall /\ UNCHANGED <<regvars, runvars, mgrvars, funvars, clockvars>>)
    \/ (bash_next /\ UNCHANGED <<regvars, runvars, mgrvars, funvars, clockvars>>)
    \/ (\E kind \in {"out", "empty"} : bash_output(kind) /\ UNCHANGED <<regvars, runvars, mgrvars, funvars, clockvars>>)
    \/ (\E code \in ExitCodes : bash_cmd_exit(code) /\ UNCHANGED <<regvars, runvars, mgrvars, funvars, clockvars>>)

\* One shell session and the bash behind its PTY.
SpecSession == Init /\ [][SessNext]_vars

\* Output sizes a run may have reached: none, one below the cap.
BufferPreloads == {PROCESS_MAX_OUTPUT_LINES - 1}

RunInit ==
    /\ FunIdle
    /\ RegIdle
    /\ SessInit
    /\ MgrIdle
    /\ (RunCalled \/ \E n \in BufferPreloads : RunUnderWay(n))

RunNext ==
    \/ (run_validate /\ UNCHANGED <<regvars, sessvars, mgrvars, funvars, clockvars>>)
    \/ (\E p \in Pipes : child_write(p) /\ UNCHANGED <<regvars, sessvars, mgrvars, funvars, clockvars>>)
    \/ (\E code \in Option(ExitCodes) : child_exit(code) /\ UNCHANGED <<regvars, sessvars, mgrvars, funvars, clockvars>>)
    \/ (\E p \in Pipes : reader_read(p) /\ UNCHANGED <<regvars, sessvars, mgrvars, funvars, clockvars>>)
    \/ (\E p \in Pipes : reader_eof(p) /\ UNCHANGED <<regvars, sessvars, mgrvars, funvars, clockvars>>)
    \/ (\E p \in Pipes : reader_error(p) /\ UNCHANGED <<regvars, sessvars, mgrvars, funvars, clockvars>>)
    \/ (run_child_done /\ UNCHANGED <<regvars, sessvars, mgrvars, funvars, clockvars>>)
    \/ (run_timeout /\ UNCHANGED <<regvars, sessvars, mgrvars, funvars, clockvars>>)
    \/ (kill_process /\ UNCHANGED <<regvars, sessvars, mgrvars, funvars, clockvars>>)
    \/ (run_reap /\ UNCHANGED <<regvars, sessvars, mgrvars, funvars, clockvars>>)
    \/ (run_join /\ UNCHANGED <<regvars, sessvars, mgrvars, funvars, clockvars>>)

\* One call of process::run, its child and its reader tasks.
SpecRun == RunInit /\ [][RunNext]_vars

RejectedInit ==
    /\ FunIdle
    /\ RegIdle
    /\ SessInit
    /\ MgrIdle
    /\ RunCalled

RejectedNext ==
    \/ SessNext
    \/ (run_validate /\ UNCHANGED <<regvars, sessvars, mgrvars, funvars, clockvars>>)

\* The validator's gate on both paths: the first step of process::run next to
\* one shell session.
SpecRejected == RejectedInit /\ [][RejectedNext]_vars

\* ------------------------------------------------ get_output on long outputs

\* Output lengths and line arguments around the 500-line cap.
Edges == {0, 1, 2, 3, max_slice - 1, max_slice, max_slice + 1, 2 * max_slice + 1}

\* The registry after run_command stored a result of n lines under id 1.
OutInit ==
    /\ FunIdle
    /\ \E n \in Edges :
          entries = Insert(<<>>, 1, StoredEntry(ProcessResult(0, FALSE, [i \in 1..n |-> i]), 0))
    /\ tasks = <<>>
    /\ waiters = EmptyBag
    /\ pending = 0
    /\ now = 0
    /\ nticks = 0
    /\ last = NoReply
    /\ RegLockIdle
    /\ SessInit
    /\ RunIdle
    /\ MgrIdle

OutNext ==
    \E s \in Option(Edges), e \in Option(Edges) : get_output(1, s, e) /\ UNCHANGED <<sessvars, runvars, mgrvars, funvars, clockvars, reglockvars>>

SpecGetOutput == OutInit /\ [][OutNext]_vars

\* ------------------------------------------- the clock of a session exec

\* The timeouts of the explored execs, in seconds, as exec computed them.
ExecTimeouts == 1..MaxExecTimeout

\* start = Instant::now(): the exec's clock begins with the wrapper sent.
timed_exec_send ==
    /\ exec_send
    /\ timer' = [timer EXCEPT !.elapsed = 0, !.since_read = 0]

\* A line is read; the next iteration begins a read with a timeout of its own.
timed_exec_read ==
    /\ exec_read
    /\ timer' = [timer EXCEPT !.since_read = 0]

\* tokio::time::timeout(read_timeout, read_line) elapses: nothing was read
\* for read_timeout seconds.
timed_exec_timeout(killed, flush) ==
    /\ timer.since_read >= timer.timeout
    /\ exec_timeout(killed, flush)
    /\ UNCHANGED timer

\* A second passes while the read loop waits for a line and bash runs a
\* command or has nothing to read (its echoes take no time). elapsed is
\* counted up to one second past the longest timeout.
second ==
    /\ ex.pc = "reading"
    /\ stream = <<>>
    /\ fg # None \/ tty_in = <<>>
    /\ timer.since_read < timer.timeout
    /\ timer' = [timer EXCEPT !.elapsed = Min(@ + 1, MaxExecTimeout + 1),
                              !.since_read = @ + 1]
    /\ UNCHANGED sessvars

TimedInit ==
    /\ RegIdle /\ SessInit /\ RunIdle /\ MgrIdle
    /\ call = None /\ ret = None
    /\ \E t \in ExecTimeouts : timer = [timeout |-> t, elapsed |-> 0, since_read |-> 0]

TimedNext ==
    \/ (timed_exec_send /\ UNCHANGED <<regvars, runvars, mgrvars, funvars>>)
    \/ (timed_exec_read /\ UNCHANGED <<regvars, runvars, mgrvars, funvars>>)
    \/ (\E killed \in BOOLEAN, flush \in BOOLEAN :
            timed_exec_timeout(killed, flush) /\ UNCHANGED <<regvars, runvars, mgrvars, funvars>>)
    \/ (exec_recover_read /\ UNCHANGED <<regvars, runvars, mgrvars, funvars, clockvars>>)
    \/ (exec_recover_stall /\ UNCHANGED <<regvars, runvars, mgrvars, funvars, clockvars>>)
    \/ (bash_next /\ UNCHANGED <<regvars, runvars, mgrvars, funvars, clockvars>>)
    \/ (\E kind \in {"out", "empty"} :
            bash_output(kind) /\ UNCHANGED <<regvars, runvars, mgrvars, funvars, clockvars>>)
    \/ (\E code \in ExitCodes :
            bash_cmd_exit(code) /\ UNCHANGED <<regvars, runvars, mgrvars, funvars, clockvars>>)
    \/ (second /\ UNCHANGED <<regvars, runvars, mgrvars, funvars>>)

\* One shell session, the bash behind its PTY and the clock of its execs.
SpecSessionClock == TimedInit /\ [][TimedNext]_vars

\* --------------------------------------------------- output windowing

\* No registry, session, run or manager activity: the state next to which a
\* pure function is evaluated.
NoSystem ==
    /\ RegIdle /\ SessInit /\ RunIdle /\ MgrIdle
    /\ timer = [timeout |-> 0, elapsed |-> 0, since_read |-> 0]

HEAD_LINES == 10

\* The words of ERROR_PATTERNS, in lower case.
ERROR_PATTERNS ==
    {"error", "failed", "failure", "fatal", "panic", "exception", "traceback",
     "fail", "denied", "aborted"}

\* A line of output is its number in the output and its words: the maximal
\* runs of word characters, each written in lower case (the patterns are
\* (?i)\bword\b, so a pattern matches a line iff it is one of its words).
OutputLine(no, words) == [no |-> no, words |-> words]

\* ERROR_PATTERNS.iter().any(|re| re.is_match(line))
is_match(line) == \E i \in DOMAIN line.words : line.words[i] \in ERROR_PATTERNS

\* extract_errors keeping the first matching line only.
extract_errors_first(lines) ==
    LET m == SelectSeq(lines, is_match) IN
    IF m = <<>> THEN <<>> ELSE <<m[1]>>

extract_errors(lines) == SelectSeq(lines, is_match)

\* a.saturating_sub(b)
saturating_sub(a, b) == IF a > b THEN a - b ELSE 0

\* tail_count taking the whole budget.
tail_count_all(max_lines, head_count) == max_lines

tail_count(max_lines, head_count) == saturating_sub(max_lines, head_count)

window(lines, max_lines) ==
    LET total_lines == Len(lines) IN
    IF total_lines <= max_lines
    THEN [head |-> lines, tail |-> <<>>, error_lines |-> extract_errors(lines),
          total_lines |-> total_lines, truncated |-> FALSE]
    ELSE LET head_count == Min(HEAD_LINES, max_lines)
             tc == tail_count(max_lines, head_count)
         IN [head |-> Slice(lines, 0, head_count),
             tail |-> IF tc > 0
                      THEN Slice(lines, saturating_sub(total_lines, tc), total_lines)
                      ELSE <<>>,
             error_lines |-> extract_errors(lines),
             total_lines |-> total_lines, truncated |-> TRUE]

\* The words of the lines the explored outputs are made of: one that matches
\* no pattern ("errors" is not the word "error") and one that matches.
LineTexts == {<<"0", "errors">>, <<"error", "e0432">>}

\* The outputs of n lines.
Outputs(n) == {[i \in 1..n |-> OutputLine(i, f[i])] : f \in [1..n -> LineTexts]}

WinInit ==
    /\ NoSystem
    /\ \E n \in 0..MaxWinLines, max_lines \in 0..(MaxWinLines + 1) :
       \E lines \in Outputs(n) :
          call = Some([fn |-> "window", lines |-> lines, max_lines |-> max_lines])
    /\ ret = None

window_call ==
    /\ call # None /\ call[1].fn = "window"
    /\ ret = None
    /\ ret' = Some(window(call[1].lines, call[1].max_lines))
    /\ UNCHANGED <<call, regvars, sessvars, runvars, mgrvars, clockvars>>

WinNext == window_call

SpecWindow == WinInit /\ [][WinNext]_vars

\* ------------------------------------------------ the command validator

\* A command is a string, written as the sequence of its characters.
PROTECTED_PATHS ==
    {<<"/">>,
     <<"/", "*">>,
     <<"/", "b", "i", "n">>,
     <<"/", "s", "b", "i", "n">>,
     <<"/", "u", "s", "r">>,
     <<"/", "e", "t", "c">>,
     <<"/", "v", "a", "r">>,
     <<"/", "h", "o", "m", "e">>,
     <<"/", "r", "o", "o", "t">>,
     <<"/", "l", "i", "b">>,
     <<"/", "l", "i", "b", "6", "4">>,
     <<"/", "o", "p", "t">>,
     <<"/", "b", "o", "o", "t">>,
     <<"/", "d", "e", "v">>,
     <<"/", "s", "y", "s">>,
     <<"/", "p", "r", "o", "c">>,
     <<"/", "S", "y", "s", "t", "e", "m">>,
     <<"/", "L", "i", "b", "r", "a", "r", "y">>,
     <<"/", "A", "p", "p", "l", "i", "c", "a", "t", "i", "o", "n", "s">>,
     <<"/", "U", "s", "e", "r", "s">>,
     <<"/", "p", "r", "i", "v", "a", "t", "e">>,
     <<"/", "p", "r", "i", "v", "a", "t", "e", "/", "v", "a", "r">>,
     <<"/", "p", "r", "i", "v", "a", "t", "e", "/", "e", "t", "c">>}

\* haystack.find(needle): the byte offset of the first occurrence, if any.
find(s, pat) ==
    LET at == {i \in 0..(Len(s) - Len(pat)) : SubSeq(s, i + 1, i + Len(pat)) = pat}
    IN IF at = {} THEN None ELSE Some(CHOOSE i \in at : \A j \in at : i <= j)

starts_with(s, pat) == Len(s) >= Len(pat) /\ SubSeq(s, 1, Len(pat)) = pat

contains(s, c) == \E i \in DOMAIN s : s[i] = c

RECURSIVE trim_end_matches(_, _)
trim_end_matches(s, c) ==
    IF s # <<>> /\ s[Len(s)] = c THEN trim_end_matches(SubSeq(s, 1, Len(s) - 1), c) ELSE s

RECURSIVE trim_start(_)
trim_start(s) == IF s # <<>> /\ s[1] = " " THEN trim_start(Tail(s)) ELSE s

\* str::trim
trim(s) == trim_start(trim_end_matches(s, " "))

\* The first word of s, which does not begin with a space.
RECURSIVE first_word(_)
first_word(s) ==
    IF s = <<>> \/ s[1] = " " THEN <<>> ELSE <<s[1]>> \o first_word(Tail(s))

RECURSIVE split_whitespace(_)
split_whitespace(s) ==
    LET t == trim_start(s) IN
    IF t = <<>> THEN <<>>
    ELSE LET w == first_word(t) IN
         <<w>> \o split_whitespace(SubSeq(t, Len(w) + 1, Len(t)))

RECURSIVE split_subcommands(_)
split_subcommands(cmd) ==
    IF cmd = <<>> THEN <<>>
    ELSE LET found == find(cmd, <<"&", "&">>) \o find(cmd, <<"|", "|">>) \o find(cmd, <<";">>)
         IN IF found = <<>> THEN <<cmd>>
            ELSE LET pos == CHOOSE p \in {found[i] : i \in DOMAIN found} :
                               \A i \in DOMAIN found : p <= found[i]
                     rest == SubSeq(cmd, pos + 1, Len(cmd))
                     sep_len == IF starts_with(rest, <<"&", "&">>) \/ starts_with(rest, <<"|", "|">>)
                                THEN 2 ELSE 1
                 IN <<SubSeq(cmd, 1, pos)>> \o split_subcommands(SubSeq(cmd, pos + sep_len + 1, Len(cmd)))

\* words.iter().position(|w| *w == name)
position(words, name) ==
    LET at == {i \in DOMAIN words : words[i] = name}
    IN IF at = {} THEN None ELSE Some((CHOOSE i \in at : \A j \in at : i <= j) - 1)

\* path_with_slash leaving the trailing slashes of the argument.
path_with_slash_untrimmed(arg) == arg

\* The argument without its trailing slashes, "/" when nothing is left.
path_with_slash(arg) ==
    LET path == trim_end_matches(arg, "/") IN
    IF path = <<>> THEN <<"/">> ELSE path

\* The arguments that name a protected path; star is rm's extra test of "/*".
targets_protected(args, star) ==
    \E i \in DOMAIN args :
        /\ ~starts_with(args[i], <<"-">>)
        /\ \E protected \in PROTECTED_PATHS :
              LET protected_trimmed == trim_end_matches(protected, "/")
                  protected_cmp == IF protected_trimmed = <<>> THEN <<"/">> ELSE protected_trimmed
              IN path_with_slash(args[i]) = protected_cmp \/ (star /\ args[i] = <<"/", "*">>)

is_dangerous_rm(subcmd) ==
    LET words == split_whitespace(subcmd)
        rm_pos == position(words, <<"r", "m">>)
    IN IF rm_pos = None THEN FALSE
       ELSE LET args == SubSeq(words, rm_pos[1] + 2, Len(words))
                has_recursive ==
                    \E i \in DOMAIN args :
                        LET a == args[i] IN
                        \/ a = <<"-", "r">>
                        \/ a = <<"-", "R">>
                        \/ a = <<"-", "-", "r", "e", "c", "u", "r", "s", "i", "v", "e">>
                        \/ /\ starts_with(a, <<"-">>)
                           /\ ~starts_with(a, <<"-", "-">>)
                           /\ (contains(a, "r") \/ contains(a, "R"))
            IN has_recursive /\ targets_protected(args, TRUE)

is_dangerous_chmod_chown(subcmd, cmd_name) ==
    LET words == split_whitespace(subcmd)
        cmd_pos == position(words, cmd_name)
    IN IF cmd_pos = None THEN FALSE
       ELSE LET args == SubSeq(words, cmd_pos[1] + 2, Len(words))
                has_recursive ==
                    \E i \in DOMAIN args :
                        LET a == args[i] IN
                        \/ a = <<"-", "R">>
                        \/ a = <<"-", "-", "r", "e", "c", "u", "r", "s", "i", "v", "e">>
                        \/ /\ starts_with(a, <<"-">>)
                           /\ ~starts_with(a, <<"-", "-">>)
                           /\ contains(a, "R")
            IN has_recursive /\ targets_protected(args, FALSE)

\* Ok(()) is "", an Err is the operation its reason names.
check_destructive_on_protected_paths(command) ==
    LET subs == split_subcommands(trim(command))
        bad(name) == {i \in DOMAIN subs :
                        LET subcmd == trim(subs[i]) IN
                        /\ subcmd # <<>>
                        /\ IF name = "rm" THEN is_dangerous_rm(subcmd)
                           ELSE IF name = "chmod" THEN is_dangerous_chmod_chown(subcmd, <<"c", "h", "m", "o", "d">>)
                           ELSE is_dangerous_chmod_chown(subcmd, <<"c", "h", "o", "w", "n">>)}
        hits == bad("rm") \cup bad("chmod") \cup bad("chown")
    IN IF hits = {} THEN ""
       ELSE LET i == CHOOSE k \in hits : \A j \in hits : k <= j
            IN IF i \in bad("rm") THEN "recursive delete"
               ELSE IF i \in bad("chmod") THEN "recursive chmod"
               ELSE "recursive chown"

\* The words the explored commands are made of.
Tokens ==
    {<<"s", "u", "d", "o">>,
     <<"r", "m">>,
     <<"c", "h", "m", "o", "d">>,
     <<"c", "h", "o", "w", "n">>,
     <<"-", "f", "r">>,
     <<"-", "R">>,
     <<"-", "-", "r", "e", "c", "u", "r", "s", "i", "v", "e">>,
     <<"/">>,
     <<"/", "e", "t", "c", "/">>,
     <<"/", "t", "m", "p", "/", "x">>,
     <<"/", "*">>}

\* What stands between two words: blanks, or one of the three separators.
Blank == <<" ">>
Operators == {<<";">>, <<" ", "&", "&", " ">>, <<"|", "|">>}

\* The joiners of a command of n words: blanks, but for at most one separator.
Joiners(n) ==
    {[i \in 1..(n - 1) |-> Blank]} \cup
    {[i \in 1..(n - 1) |-> IF i = k THEN op ELSE Blank] : k \in 1..(n - 1), op \in Operators}

\* The command string of words ws joined by js.
RECURSIVE Join(_, _)
Join(ws, js) ==
    IF Len(ws) = 0 THEN <<>>
    ELSE IF Len(ws) = 1 THEN ws[1]
    ELSE ws[1] \o js[1] \o Join(Tail(ws), Tail(js))

ValInit ==
    /\ NoSystem
    /\ \E n \in 1..MaxTokens :
          \E ws \in [1..n -> Tokens], js \in Joiners(n) :
              call = Some([fn |-> "check_destructive_on_protected_paths",
                           words |-> ws, joiners |-> js, command |-> Join(ws, js)])
    /\ ret = None

check_call ==
    /\ call # None /\ call[1].fn = "check_destructive_on_protected_paths"
    /\ ret = None
    /\ ret' = Some(check_destructive_on_protected_paths(call[1].command))
    /\ UNCHANGED <<call, regvars, sessvars, runvars, mgrvars, clockvars>>

ValNext == check_call

SpecValidate == ValInit /\ [][ValNext]_vars

\* --------------------------------------------------------- ANSI stripping

\* Characters are one-character strings; the three control characters are
\* written by name.
ESC == "ESC"
BEL == "BEL"
BS == "BS"
LF == "LF"

Digits == {"0", "1", "2", "3", "4", "5", "6", "7", "8", "9"}
Letters ==
    {"a", "b", "c", "d", "e", "f", "g", "h", "i", "j", "k", "l", "m", "n", "o", "p", "q", "r", "s", "t", "u", "v", "w", "x", "y", "z"} \cup
    {"A", "B", "C", "D", "E", "F", "G", "H", "I", "J", "K", "L", "M", "N", "O", "P", "Q", "R", "S", "T", "U", "V", "W", "X", "Y", "Z"}

\* The length of the longest run of characters of class at s[i], s[i+1], ...
RECURSIVE run_len(_, _, _)
run_len(s, i, class) ==
    IF i <= Len(s) /\ s[i] \in class THEN 1 + run_len(s, i + 1, class) ELSE 0

\* The distance from i to the first BEL at or after i, if there is one.
RECURSIVE to_bel(_, _)
to_bel(s, i) ==
    IF i > Len(s) THEN None
    ELSE IF s[i] = BEL THEN Some(0)
    ELSE LET d == to_bel(s, i + 1) IN IF d = None THEN None ELSE Some(d[1] + 1)

\* The length of the match of ANSI_ESCAPE that begins at s[i], 0 when there
\* is none. The alternatives are tried in the order of the pattern:
\*   \x1b\[[0-9;?<=>!]*[a-zA-Z~] | \x1b\][^\x07]*\x07 | \x1b[()][0-9A-B]
\*   | \x1b[a-zA-Z] | .\x08
match_len(s, i) ==
    LET at(k) == IF i + k <= Len(s) THEN s[i + k] ELSE ""
        params == run_len(s, i + 2, Digits \cup {";", "?", "<", "=", ">", "!"})
        bel == to_bel(s, i + 2)
    IN IF at(0) = ESC /\ at(1) = "[" /\ at(2 + params) \in Letters \cup {"~"}
       THEN 3 + params
       ELSE IF at(0) = ESC /\ at(1) = "]" /\ bel # None
       THEN 3 + bel[1]
       ELSE IF at(0) = ESC /\ at(1) \in {"(", ")"} /\ at(2) \in Digits \cup {"A", "B"}
       THEN 3
       ELSE IF at(0) = ESC /\ at(1) \in Letters
       THEN 2
       ELSE IF at(0) # LF /\ at(1) = BS
       THEN 2
       ELSE 0

\* replace_all(s, ""): the matches are found from left to right, each search
\* beginning where the match before it ended.
RECURSIVE replace_all(_, _)
replace_all(s, i) ==
    IF i > Len(s) THEN <<>>
    ELSE LET m == match_len(s, i) IN
         IF m > 0 THEN replace_all(s, i + m) ELSE <<s[i]>> \o replace_all(s, i + 1)

strip_ansi(s) == replace_all(s, 1)

\* The characters the explored strings are made of.
StripChars == {ESC, "[", "]", "(", "0", "m", BEL, BS}

StripInit ==
    /\ NoSystem
    /\ \E n \in 0..MaxStrLen :
          \E s \in [1..n -> StripChars] :
              call = Some([fn |-> "strip_ansi", s |-> s, pass |-> 1])
    /\ ret = None

strip_call ==
    /\ call # None /\ call[1].fn = "strip_ansi"
    /\ ret = None
    /\ ret' = Some(strip_ansi(call[1].s))
    /\ UNCHANGED <<call, regvars, sessvars, runvars, mgrvars, clockvars>>

\* The stripped string is handed to strip_ansi again.
strip_again ==
    /\ call # None /\ call[1].fn = "strip_ansi" /\ call[1].pass = 1
    /\ ret # None
    /\ call' = Some([fn |-> "strip_ansi", s |-> ret[1], pass |-> 2])
    /\ ret' = None
    /\ UNCHANGED <<regvars, sessvars, runvars, mgrvars, clockvars>>

StripNext == strip_call \/ strip_again

SpecStrip == StripInit /\ [][StripNext]_vars

\* ----------------------------------------------------------- line cleaning

CR == "CR"

clean_line(raw) ==
    LET stripped == strip_ansi(raw) IN
    trim_end_matches(trim_end_matches(stripped, LF), CR)

\* The characters the explored raw lines are made of.
CleanChars == {"a", CR, LF, BS, ESC}

CleanInit ==
    /\ NoSystem
    /\ \E n \in 0..MaxStrLen :
          \E s \in [1..n -> CleanChars] :
              call = Some([fn |-> "clean_line", s |-> s, pass |-> 1])
    /\ ret = None

clean_call ==
    /\ call # None /\ call[1].fn = "clean_line"
    /\ ret = None
    /\ ret' = Some(clean_line(call[1].s))
    /\ UNCHANGED <<call, regvars, sessvars, runvars, mgrvars, clockvars>>

\* The cleaned line is handed to clean_line again.
clean_again ==
    /\ call # None /\ call[1].fn = "clean_line" /\ call[1].pass = 1
    /\ ret # None
    /\ call' = Some([fn |-> "clean_line", s |-> ret[1], pass |-> 2])
    /\ ret' = None
    /\ UNCHANGED <<regvars, sessvars, runvars, mgrvars, clockvars>>

CleanNext == clean_call \/ clean_again

SpecClean == CleanInit /\ [][CleanNext]_vars

\* ----------------------------------------------- the read loop of exec

MARKER_PREFIX == <<"_", "_", "A", "G", "E", "N", "T", "S", "H", "_">>

\* The markers of the exec whose uuid is cmd_id, a uuid being taken as one
\* character.
start_marker(cmd_id) == MARKER_PREFIX \o <<"S", "T", "A", "R", "T", "_", cmd_id, "_", "_">>
end_marker_prefix(cmd_id) == MARKER_PREFIX \o <<"E", "N", "D", "_", cmd_id, "_">>

ends_with(s, pat) == Len(s) >= Len(pat) /\ SubSeq(s, Len(s) - Len(pat) + 1, Len(s)) = pat

DigitChars == <<"0", "1", "2", "3", "4", "5", "6", "7", "8", "9">>

RECURSIVE digits_value(_)
digits_value(d) ==
    IF d = <<>> THEN 0
    ELSE 10 * digits_value(SubSeq(d, 1, Len(d) - 1))
         + ((CHOOSE i \in DOMAIN DigitChars : DigitChars[i] = d[Len(d)]) - 1)

\* str::parse::<i32>: an optional sign and one digit or more, in range.
parse_i32(s) ==
    LET signed == s # <<>> /\ s[1] \in {"+", "-"}
        d == IF signed THEN Tail(s) ELSE s
    IN IF d = <<>> \/ Len(d) > 9 \/ \E i \in DOMAIN d : d[i] \notin Digits THEN None
       ELSE Some(IF signed /\ s[1] = "-" THEN 0 - digits_value(d) ELSE digits_value(d))

\* The locals of exec at the start of its read loop.
ReadLocals ==
    [found_start |-> FALSE, has_output |-> FALSE, lines |-> <<>>,
     exit_code |-> -1, done |-> FALSE]

\* push_cleaned leaving empty lines out.
push_cleaned_nonempty(ls, cleaned) ==
    IF buf_len(ls) < MAX_OUTPUT_LINES /\ cleaned # <<>> THEN buf_push(ls, cleaned) ELSE ls

\* if lines.len() < MAX_OUTPUT_LINES { lines.push(cleaned) }
push_cleaned(ls, cleaned) ==
    IF buf_len(ls) < MAX_OUTPUT_LINES THEN buf_push(ls, cleaned) ELSE ls

\* One iteration of the read loop on the cleaned line that was read, for the
\* exec whose uuid is cmd_id.
read_loop_body(x, cleaned, cmd_id) ==
    LET prefix == end_marker_prefix(cmd_id)
        pos == find(cleaned, prefix)
        after == IF pos = None THEN <<>>
                 ELSE SubSeq(cleaned, pos[1] + Len(prefix) + 1, Len(cleaned))
    IN
    IF cleaned = <<>> /\ ~x.found_start THEN x
    ELSE IF ~x.found_start
    THEN IF find(cleaned, start_marker(cmd_id)) # None
         THEN [x EXCEPT !.found_start = TRUE] ELSE x
    ELSE IF pos # None /\ ends_with(after, <<"_", "_">>)
    THEN [x EXCEPT !.done = TRUE,
                   !.exit_code = unwrap_or(parse_i32(SubSeq(after, 1, Len(after) - 2)), -1)]
    ELSE IF find(cleaned, MARKER_PREFIX) # None THEN x
    ELSE [x EXCEPT !.has_output = TRUE, !.lines = push_cleaned(@, cleaned)]

RECURSIVE Strings(_, _)
Strings(chars, n) ==
    IF n = 0 THEN {<<>>}
    ELSE LET shorter == Strings(chars, n - 1)
         IN shorter \cup {Append(t, c) : t \in shorter, c \in chars}

\* The uuid of the exec under study and that of an earlier one.
OwnId == "u"
OtherId == "v"

\* Lines ahead in the stream: the start marker, an empty line, output, a
\* marker left by another exec.
AheadLines ==
    {start_marker(OwnId), <<>>, <<"x">>, <<"0">>, end_marker_prefix(OtherId) \o <<"0", "_", "_">>}

\* Then a line with or without a marker in it, followed by a few characters.
MarkerLines ==
    {pre \o mid \o post :
        pre \in {<<>>, <<"x">>, <<"_">>},
        mid \in {<<>>, MARKER_PREFIX, end_marker_prefix(OwnId), end_marker_prefix(OtherId)},
        post \in Strings({"_", "0", "7", "-", "x"}, MaxCodeLen)}

\* An exec in its read loop, nothing read yet or MAX_OUTPUT_LINES - 1 lines
\* collected, and the cleaned lines it is going to read.
ReadInit ==
    /\ NoSystem
    /\ \E n \in 0..MaxAhead :
          \E ahead \in [1..n -> AheadLines], l \in MarkerLines, full \in BOOLEAN :
              call = Some([fn |-> "read_loop", cmd_id |-> OwnId,
                           stream |-> ahead \o <<l>>])
              /\ ret = Some(IF full
                            THEN [ReadLocals EXCEPT !.found_start = TRUE, !.has_output = TRUE,
                                                    !.lines = Lines(<<"x">>, MAX_OUTPUT_LINES - 1)]
                            ELSE ReadLocals)

\* read_line returns a line: one iteration of the loop.
read_loop_step ==
    /\ call # None /\ call[1].fn = "read_loop"
    /\ call[1].stream # <<>>
    /\ ~ret[1].done
    /\ ret' = Some(read_loop_body(ret[1], Head(call[1].stream), call[1].cmd_id))
    /\ call' = Some([call[1] EXCEPT !.stream = Tail(@)])
    /\ UNCHANGED <<regvars, sessvars, runvars, mgrvars, clockvars>>

ReadNext == read_loop_step

SpecReadLoop == ReadInit /\ [][ReadNext]_vars

\* --------------------------------------------------------------- timeouts

MAX_TIMEOUT_SECONDS == 3600
DEFAULT_TIMEOUT_SECONDS == 300
\* The default of ShellSession::exec, written out in its unwrap_or.
SESSION_DEFAULT_TIMEOUT == 300

\* Option::map(|t| t.min(m))
map_min(o, m) == IF o = None THEN None ELSE Some(Min(o[1], m))

\* clamp_timeout returning its argument.
clamp_timeout_none(timeout) == timeout

clamp_timeout(timeout) == map_min(timeout, MAX_TIMEOUT_SECONDS)

\* The timeout_seconds run_command and start_command put in ProcessConfig.
command_timeout(timeout_seconds) ==
    clamp_timeout(Some(unwrap_or(timeout_seconds, DEFAULT_TIMEOUT_SECONDS)))

\* The timeout of ShellSession::exec, in seconds.
session_timeout(timeout_seconds) ==
    unwrap_or(map_min(timeout_seconds, MAX_TIMEOUT_SECONDS), SESSION_DEFAULT_TIMEOUT)

\* The requested timeouts explored: small ones, those around the default and
\* the ceiling, and a very large one.
Timeouts ==
    (0..MaxSmallTimeout)
        \cup ((DEFAULT_TIMEOUT_SECONDS - 1)..(DEFAULT_TIMEOUT_SECONDS + 1))
        \cup ((MAX_TIMEOUT_SECONDS - 5)..(MAX_TIMEOUT_SECONDS + 5))
        \cup {LargeTimeout}

TimeoutInit ==
    /\ NoSystem
    /\ \E fn \in {"clamp_timeout", "run_command", "start_command", "session_exec"},
          t \in Option(Timeouts) :
              call = Some([fn |-> fn, timeout_seconds |-> t])
    /\ ret = None

clamp_call ==
    /\ call # None /\ call[1].fn = "clamp_timeout"
    /\ ret = None
    /\ ret' = Some(clamp_timeout(call[1].timeout_seconds))
    /\ UNCHANGED <<call, regvars, sessvars, runvars, mgrvars, clockvars>>

command_timeout_call ==
    /\ call # None /\ call[1].fn \in {"run_command", "start_command"}
    /\ ret = None
    /\ ret' = Some(command_timeout(call[1].timeout_seconds))
    /\ UNCHANGED <<call, regvars, sessvars, runvars, mgrvars, clockvars>>

session_timeout_call ==
    /\ call # None /\ call[1].fn = "session_exec"
    /\ ret = None
    /\ ret' = Some(Some(session_timeout(call[1].timeout_seconds)))
    /\ UNCHANGED <<call, regvars, sessvars, runvars, mgrvars, clockvars>>

TimeoutNext == clamp_call \/ command_timeout_call \/ session_timeout_call

SpecTimeout == TimeoutInit /\ [][TimeoutNext]_vars

\* ------------------------------------------------------------------ claims

\* A claim about every step ("whenever op is called in such a state, then
\* ...") is written as a state predicate: in no reachable state is a step of
\* the specification enabled that breaks it, ~ENABLED (Next /\ ~(...)).

\* C1: whenever kill(id) returns success, the entry of id holds the synthetic
\* result (exit_code -1, timed_out false, lines = the buffer's snapshot) and
\* status(id) no longer reports "running".
C1_KillStoresResult ==
    (last.op = "kill" /\ last.err = "") =>
        /\ last.id \in DOMAIN entries
        /\ entries[last.id].result =
               Some(ProcessResult(-1, FALSE, Buffer(entries[last.id].output_buffer)))
        /\ StatusOf(entries[last.id]) # "running"

\* C2: a wait(id) that returns once the started command of id has finished,
\* with no other wait on id in progress and the entry not killed, returns the
\* command's result; a wait that timed out earlier does not change that.
C2_WaitAfterTimeout ==
    \A id \in DOMAIN entries :
        LET e == entries[id] IN
        (/\ last.op = "wait" /\ last.id = id
         /\ e.output_buffer # 0
         /\ tasks[e.output_buffer].state = "finished"
         /\ e.result \in {None, tasks[e.output_buffer].res}
         /\ \A w \in BagToSet(waiters) : w.id # id)
        => (last.err = "" /\ last.val = tasks[e.output_buffer].res)

\* C3: in every reachable state at most MAX_CONCURRENT_PROCESSES entries have
\* no cached result (so a start that finds the cap reached is rejected).
C3_RunningCap == running_count(entries) <= MAX_CONCURRENT_PROCESSES

C3_Witness ==
    /\ running_count(entries) = MAX_CONCURRENT_PROCESSES
    /\ last.op = "start"
    /\ last.err = "too many concurrent processes"

\* C4: a start whose id is present in the registry is rejected with "already
\* exists", spawns no task and leaves the entries unchanged.
C4_DuplicateIdRejected ==
    ~ENABLED (Next /\ ~(\A id \in Ids, cmd \in Commands :
          (id \in DOMAIN entries /\ start(id, cmd)) =>
              /\ last' = Reply("start", id, "already exists", None)
              /\ tasks' = tasks
              /\ entries' = entries))

C4_Witness ==
    /\ last.op = "start"
    /\ last.err = "already exists"
    /\ last.id \in DOMAIN entries
    /\ entries[last.id].result = None
    /\ entries[last.id].output_buffer # 0

\* C5: while a wait holds the handle of id's entry and no result is cached,
\* every other wait(id) fails with "already being waited on" and changes
\* neither the entry nor the waiters; no task ever has two waiters.
C5_OneWaiter ==
    /\ ~ENABLED (Next /\ ~(\A id \in Ids, timed \in BOOLEAN :
            (/\ id \in DOMAIN entries
             /\ entries[id].result = None
             /\ \E w \in BagToSet(waiters) :
                    w.id = id /\ w.tid = entries[id].output_buffer
             /\ wait_take(id, timed))
            => /\ last' = Reply("wait", id, "already being waited on", None)
               /\ entries' = entries
               /\ waiters' = waiters))
    /\ (\A t \in DOMAIN tasks :
            LET on == {w \in BagToSet(waiters) : w.tid = t} IN
            /\ Cardinality(on) <= 1
            /\ \A w \in on : CopiesIn(w, waiters) = 1)

C5_Witness ==
    /\ last.op = "wait"
    /\ last.err = "already being waited on"
    /\ last.id \in DOMAIN entries
    /\ entries[last.id].result = None
    /\ \E w \in BagToSet(waiters) :
           w.id = last.id /\ w.tid = entries[last.id].output_buffer

\* C6: once an entry has a cached result, a wait on it returns that result at
\* once, a kill on it is refused, and no step of a wait or a kill changes the
\* entry.
C6_CachedResultKept ==
    ~ENABLED (Next /\ ~(\A id \in DOMAIN entries :
          entries[id].result # None =>
              /\ last'.op \in {"wait", "kill"} =>
                     (id \in DOMAIN entries' /\ entries'[id] = entries[id])
              /\ \A timed \in BOOLEAN :
                     wait_take(id, timed) => last' = Reply("wait", id, "", entries[id].result)
              /\ kill(id) => last' = Reply("kill", id, "has already completed", None)))

C6_Witness ==
    /\ last.op = "wait"
    /\ last.err = ""
    /\ last.id \in DOMAIN entries
    /\ entries[last.id].output_buffer # 0
    /\ entries[last.id].result = last.val
    /\ last.val[1].exit_code = 0
    /\ entries[last.id].completed_at[1] < now

\* C7: when a wait(id) has returned a result, status(id) is one of completed,
\* failed, timed_out and get_output(id) reports total_lines equal to the
\* number of lines of that result.
C7_WaitThenStatusAndOutput ==
    (last.op = "wait" /\ last.err = "") =>
        /\ last.id \in DOMAIN entries
        /\ StatusOf(entries[last.id]) \in {"completed", "failed", "timed_out"}
        /\ output_slice(last.id, output_lines(entries[last.id]), None, None).total_lines
               = Len(last.val[1].lines)

C7_Witness ==
    /\ last.op = "wait"
    /\ last.err = ""
    /\ last.id \in DOMAIN entries
    /\ entries[last.id].output_buffer # 0
    /\ tasks[entries[last.id].output_buffer].cmd = "blocked"
    /\ Len(last.val[1].lines) = 1

\* C8: every slice get_output returns has 0 <= start_line <= end_line <=
\* total_lines, end_line - start_line <= 500, and lines equal to the elements
\* start_line..end_line of the full output.
C8_SliceBounds ==
    (last.op = "get_output" /\ last.err = "") =>
        LET o == last.val[1] IN
        /\ 0 <= o.start_line
        /\ o.start_line <= o.end_line
        /\ o.end_line <= o.total_lines
        /\ o.end_line - o.start_line <= max_slice
        /\ o.lines = Slice(output_lines(entries[last.id]), o.start_line, o.end_line)

\* C9: the lines an exec returns are lines its own command printed, never
\* lines of an earlier exec's command, also when the exec timed out.
C9_OwnOutputOnly ==
    (ex.result # None /\ ex.k > 0) =>
        \A i \in DOMAIN ex.result[1].lines : ex.result[1].lines[i] = ex.k

\* C10: an exec whose result has timed_out = true has exit_code 124, whatever
\* the recovery loop read.
C10_TimedOutExitCode ==
    (ex.result # None /\ ex.result[1].timed_out) =>
        ex.result[1].exit_code = TIMEOUT_EXIT_CODE

C10_Witness ==
    /\ ex.result # None
    /\ ex.result[1].timed_out
    /\ ex.recovered_by = "end"


C12_RejectedNeverExecuted ==
    /\ [][(run_validate /\ run.command = "blocked") =>
             /\ run'.result = Some(ProcessResult(-1, FALSE, Lines(BlockedLine, 1)))
             /\ child.state = "none"
             /\ UNCHANGED <<child, readers, pipes, buffer>>]_vars
    /\ [][exec_blocked =>
             /\ ex'.result = Some(SessionExecResult(-1, <<BlockedLine>>, FALSE))
             /\ ex'.pc = "idle"
             /\ UNCHANGED <<tty_in, fg, ec, stream, nexec>>]_vars

C12_Witness ==
    /\ run.pc = "done"
    /\ run.command = "blocked"
    /\ child.state = "none"
    /\ buffer = <<>>
    /\ Len(log.results) = 2
    /\ log.results[1].k = 0
    /\ log.results[2].k = 1
    /\ ~log.results[2].res.timed_out
    /\ Len(log.results[2].res.lines) = MaxOut

C15_SessionCap == Cardinality(DOMAIN sessions) <= MAX_SESSIONS

C15_Witness ==
    /\ Cardinality(DOMAIN sessions) = MAX_SESSIONS
    /\ mlast.op = "create"
    /\ mlast.err = "too many sessions"
    /\ \E i \in DOMAIN sessions : ~sessions[i].alive

\* C16: exec and send on an id that is not in the map, or whose shell has
\* exited, return an error bearing the id and leave the map, each session's
\* count of PTY writes included, as it was.
C16_UnknownOrDeadRefused ==
    ~ENABLED (MgrNext /\ ~(\A id \in SessIds :
          (id \notin DOMAIN sessions \/ ~sessions[id].alive) =>
              /\ \A cmd \in SessCommands, to \in BOOLEAN :
                     manager_exec(id, cmd, to) =>
                         /\ mlast'.op = "exec" /\ mlast'.id = id
                         /\ mlast'.err \in {"no session", "is dead"}
                         /\ sessions' = sessions
              /\ \A input \in Option({"text"}) :
                     send(id, input) =>
                         /\ mlast'.op = "send" /\ mlast'.id = id
                         /\ mlast'.err \in {"no session", "is dead"}
                         /\ sessions' = sessions))

C16_Witness ==
    /\ mlast.op = "exec"
    /\ mlast.err = "is dead"
    /\ mlast.id \in DOMAIN sessions
    /\ sessions[mlast.id].written > 0

\* C17: in a run with a timeout, SIGKILL has been sent to the child's process
\* group when the wait that follows the timeout begins; a result with
\* timed_out = true has exit_code -1, and a result with timed_out = false has
\* the child's code, or -1 when there is none.
C17_TimeoutOutcome ==
    /\ run.pc = "reaping" => child.sigkill
    /\ (run.result # None /\ run.command # "blocked") =>
           LET r == run.result[1] IN
           /\ r.timed_out => (run.timeout /\ child.sigkill /\ r.exit_code = -1)
           /\ ~r.timed_out => (~child.sigkill /\ r.exit_code = unwrap_or(child.code, -1))
    /\ run.result # None => (run.result[1].timed_out => run.result[1].exit_code = -1)

C17_Witness ==
    /\ run.result # None
    /\ run.result[1].timed_out
    /\ child.state = "killed"
    /\ run.result[1].lines # <<>>

\* C18: the shared buffer never holds more than 100 000 lines, and a reader
\* that finds the cap reached still takes the line out of its pipe, dropping
\* it.
C18_BufferCap ==
    /\ (buf_len(buffer) <= PROCESS_MAX_OUTPUT_LINES)
    /\ ~ENABLED (RunNext /\ ~(\A p \in Pipes :
            (reader_read(p) /\ buf_len(buffer) = PROCESS_MAX_OUTPUT_LINES) =>
                (pipes'[p] = pipes[p] - 1 /\ buffer' = buffer)))
    /\ (\A p \in readers : pipes[p] > 0 => ENABLED reader_read(p))

C18_Witness ==
    /\ buf_len(buffer) = PROCESS_MAX_OUTPUT_LINES
    /\ child.written = MaxChildLines
    /\ \A p \in Pipes : pipes[p] = 0
    /\ buf_last(buffer) = "stderr"

\* C19 as stated: the steps of a start made with the cap reached (its
\* prune_expired, then its checks) leave the registry map exactly as it was,
\* and spawn nothing.
C19_NoSideEffects ==
    [][running_count(entries) >= MAX_CONCURRENT_PROCESSES =>
          /\ prune_call => (entries' = entries /\ tasks' = tasks)
          /\ \A id \in Ids, cmd \in Commands :
                 (id \notin DOMAIN entries /\ start(id, cmd)) =>
                     /\ last'.err = "too many concurrent processes"
                     /\ entries' = entries
                     /\ tasks' = tasks]_vars

\* C19 amended: a start made with the cap reached spawns nothing, adds and
\* modifies no entry, and removes only entries whose completed_at is at least
\* COMPLETED_TTL old (in its prune_expired); its checks change nothing.
C19_OnlyPrunes ==
    ~ENABLED (Next /\ ~(running_count(entries) >= MAX_CONCURRENT_PROCESSES =>
          /\ prune_call =>
                 /\ tasks' = tasks
                 /\ DOMAIN entries' \subseteq DOMAIN entries
                 /\ \A i \in DOMAIN entries :
                        \/ (i \in DOMAIN entries' /\ entries'[i] = entries[i])
                        \/ /\ i \notin DOMAIN entries'
                           /\ entries[i].completed_at # None
                           /\ now - entries[i].completed_at[1] >= COMPLETED_TTL
          /\ \A id \in Ids, cmd \in Commands :
                 (id \notin DOMAIN entries /\ start(id, cmd)) =>
                     /\ last'.err = "too many concurrent processes"
                     /\ entries' = entries
                     /\ tasks' = tasks))

C19_Witness ==
    /\ last.op = "start"
    /\ last.err = "too many concurrent processes"
    /\ running_count(entries) = MAX_CONCURRENT_PROCESSES
    /\ \E i \in DOMAIN entries :
           /\ entries[i].completed_at # None
           /\ now - entries[i].completed_at[1] = COMPLETED_TTL - 1

\* C20: the first step of every start, store_result, wait and kill removes
\* from the map the entries whose completed_at is COMPLETED_TTL old or older.
C20_MutatingOpsPrune ==
    [][(\/ prune_call
        \/ \E id \in Ids, timed \in BOOLEAN : wait_take(id, timed)
        \/ \E id \in Ids : kill(id))
       => \A i \in DOMAIN entries :
              ~Retained(entries[i], now) => i \notin DOMAIN entries']_vars

\* An entry prune_expired keeps at time t: running, or completed less than
\* COMPLETED_TTL ago.
Live(e, t) == e.completed_at = None \/ t - e.completed_at[1] < COMPLETED_TTL

\* C21: no step removes an entry that has no completed_at or whose
\* completed_at is less than 30 minutes old, and none changes its cached
\* result; for a completed entry within the TTL get_output returns the lines
\* of its result and status its terminal status.
C21_PruneKeepsLive ==
    /\ ~ENABLED (Next /\ ~(\A id \in DOMAIN entries :
            Live(entries[id], now) =>
                /\ id \in DOMAIN entries'
                /\ entries[id].result # None => entries'[id].result = entries[id].result))
    /\ ~ENABLED (Next /\ ~(\A id \in Ids :
            (/\ id \in DOMAIN entries
             /\ entries[id].completed_at # None
             /\ Live(entries[id], now)) =>
                /\ get_output(id, None, None) =>
                       /\ last'.err = ""
                       /\ last'.val[1].lines = entries[id].result[1].lines
                       /\ last'.val[1].total_lines = Len(entries[id].result[1].lines)
                /\ status(id) =>
                       /\ last'.err = ""
                       /\ last'.val = Some(StatusOf(entries[id]))
                       /\ last'.val[1] # "running"))

C21_Witness ==
    /\ last.op = "get_output"
    /\ last.err = ""
    /\ pending > 0
    /\ entries[last.id].completed_at # None
    /\ now - entries[last.id].completed_at[1] = COMPLETED_TTL - 1
    /\ last.val[1].lines # <<>>

\* C22: the status reported for an entry is "running" iff it has no cached
\* result, else "timed_out" iff the result timed out, else "completed" iff
\* its exit code is 0, else "failed"; status and list report it alike.
C22_StatusFromResult ==
    /\ (\A id \in DOMAIN entries :
            LET e == entries[id]
                s == StatusOf(e) IN
            /\ s = ListStatusOf(e)
            /\ (s = "running") <=> (e.result = None)
            /\ e.result # None =>
                   /\ (s = "timed_out") <=> e.result[1].timed_out
                   /\ ~e.result[1].timed_out =>
                          /\ (s = "completed") <=> (e.result[1].exit_code = 0)
                          /\ (s = "failed") <=> (e.result[1].exit_code # 0))
    /\ ~ENABLED (Next /\ ~(\A id \in DOMAIN entries :
            /\ status(id) => last'.val = Some(ListStatusOf(entries[id]))
            /\ list => last'.val[id] = StatusOf(entries[id])))

C22_Witness ==
    /\ last.op = "list"
    /\ \E i, j, k \in DOMAIN last.val :
          /\ last.val[i] = "running"
          /\ last.val[j] = "timed_out"
          /\ last.val[k] = "completed"

\* The numbers of the lines of ls.
Nos(ls) == {ls[i].no : i \in DOMAIN ls}

\* C23: for lines L and budget B, window returns total_lines = |L| and
\* truncated iff |L| > B; with |L| <= B the head is L and the tail is empty;
\* otherwise the head is the first min(10, B) lines and the tail the last
\* B - min(10, B) lines, which share no line and are at most B together.
C23_WindowShape ==
    (call # None /\ call[1].fn = "window" /\ ret # None) =>
        LET L == call[1].lines
            B == call[1].max_lines
            W == ret[1]
            h == IF B < 10 THEN B ELSE 10
        IN /\ W.total_lines = Len(L)
           /\ W.truncated <=> (Len(L) > B)
           /\ Len(L) <= B => (W.head = L /\ W.tail = <<>>)
           /\ Len(L) > B =>
                  /\ W.head = SubSeq(L, 1, h)
                  /\ W.tail = SubSeq(L, Len(L) - (B - h) + 1, Len(L))
                  /\ Nos(W.head) \cap Nos(W.tail) = {}
                  /\ Len(W.head) + Len(W.tail) <= B

C23_Witness ==
    /\ call # None /\ call[1].fn = "window" /\ ret # None
    /\ ret[1].truncated
    /\ Len(call[1].lines) = call[1].max_lines + 1
    /\ Len(ret[1].head) = HEAD_LINES
    /\ Len(ret[1].tail) = 1

\* C24: for lines L and budget B, the error_lines of window(L, B) are the
\* lines of L that hold one of the error words, each once and in the order
\* of L, whether or not they are in the head or the tail.
C24_ErrorLinesOfFullInput ==
    (call # None /\ call[1].fn = "window" /\ ret # None) =>
        LET L == call[1].lines
            E == ret[1].error_lines
            hits == {i \in DOMAIN L :
                       \E j \in DOMAIN L[i].words : L[i].words[j] \in ERROR_PATTERNS}
        IN /\ Len(E) = Cardinality(hits)
           /\ Nos(E) = hits
           /\ \A i \in DOMAIN E : E[i] = L[E[i].no]
           /\ \A i, j \in DOMAIN E : i < j => E[i].no < E[j].no

C24_Witness ==
    /\ call # None /\ call[1].fn = "window" /\ ret # None
    /\ ret[1].truncated
    /\ ret[1].tail # <<>>
    /\ Len(ret[1].error_lines) >= 2
    /\ \E i \in DOMAIN ret[1].error_lines :
          ret[1].error_lines[i].no \notin Nos(ret[1].head) \cup Nos(ret[1].tail)

\* The sub-commands of a command of words ws joined by js: the runs of words
\* with blanks between them.
SubCommands(ws, js) ==
    {<<a, b>> \in (DOMAIN ws) \X (DOMAIN ws) :
        /\ a <= b
        /\ \A i \in a..(b - 1) : js[i] = Blank
        /\ a > 1 => js[a - 1] # Blank
        /\ b < Len(ws) => js[b] # Blank}

\* A word that is a short flag cluster holding one of the letters.
Cluster(w, letters) ==
    /\ Len(w) >= 2 /\ w[1] = "-" /\ w[2] # "-"
    /\ \E i \in DOMAIN w : w[i] \in letters

\* A word that is not a flag and, without its trailing slashes, a protected
\* path ("/" for the root).
ProtectedTarget(w) ==
    /\ w[1] # "-"
    /\ \E n \in 0..Len(w) :
          /\ \A i \in (n + 1)..Len(w) : w[i] = "/"
          /\ n > 0 => w[n] # "/"
          /\ (IF n = 0 THEN <<"/">> ELSE SubSeq(w, 1, n)) \in PROTECTED_PATHS

\* The sub-command a..b holds the word tool and, after its first occurrence,
\* one of the flags and a protected target.
Destructive(ws, a, b, tool, long, letters) ==
    \E i \in a..b :
        /\ ws[i] = tool
        /\ \A j \in a..(i - 1) : ws[j] # tool
        /\ \E f \in (i + 1)..b :
              \/ long /\ ws[f] = <<"-", "-", "r", "e", "c", "u", "r", "s", "i", "v", "e">>
              \/ Cluster(ws[f], letters)
        /\ \E p \in (i + 1)..b : ProtectedTarget(ws[p])

C26_StripIdempotent ==
    (call # None /\ call[1].fn = "strip_ansi" /\ call[1].pass = 2 /\ ret # None) =>
        ret[1] = call[1].s

\* C27: clean_line applied to a line it returned returns that line, and no
\* line it returns ends in a carriage return or a newline.
C27_CleanIdempotent ==
    (call # None /\ call[1].fn = "clean_line" /\ ret # None) =>
        /\ call[1].pass = 2 => ret[1] = call[1].s
        /\ ret[1] # <<>> => ret[1][Len(ret[1])] \notin {CR, LF}

\* C28: clamp_timeout(Some(t)) = Some(min(t, 3600)) and clamp_timeout(None) =
\* None; run_command and start_command use min(requested or 300, 3600) and a
\* session exec min(requested, 3600), or 300 when none is requested; no
\* timeout computed exceeds 3600.
C28_TimeoutClamped ==
    (call # None /\ ret # None
     /\ call[1].fn \in {"clamp_timeout", "run_command", "start_command", "session_exec"}) =>
        LET t == call[1].timeout_seconds
            least(a, b) == IF a <= b THEN a ELSE b
            r == ret[1]
        IN /\ call[1].fn = "clamp_timeout" =>
                  r = IF t = <<>> THEN <<>> ELSE <<least(t[1], 3600)>>
           /\ call[1].fn \in {"run_command", "start_command"} =>
                  r = <<least(IF t = <<>> THEN 300 ELSE t[1], 3600)>>
           /\ call[1].fn = "session_exec" =>
                  r = <<IF t = <<>> THEN 300 ELSE least(t[1], 3600)>>
           /\ r # <<>> => r[1] <= 3600

C28_Witness ==
    /\ call # None /\ ret # None
    /\ call[1].fn = "run_command"
    /\ call[1].timeout_seconds = Some(MAX_TIMEOUT_SECONDS + 1)
    /\ ret[1] = Some(MAX_TIMEOUT_SECONDS)

\* C29: a session exec is never in its read loop, with its command still
\* running, more than timeout_seconds after it began: by then it has sent the
\* interrupt and set timed_out, whether or not the command printed lines.
C29_MaxExecutionTime ==
    (ex.pc = "reading" /\ fg # None /\ fg[1].k = ex.k) =>
        timer.elapsed <= timer.timeout

\* s is t or the beginning of t.
IsPrefix(s, t) == Len(s) <= Len(t) /\ SubSeq(t, 1, Len(s)) = s

\* C30: for as long as an id stays in the session map its session is the one
\* its create spawned: what was written to its PTY is only ever added to and
\* a variable that was set stays set; an exec on the id that is not refused
\* or rejected adds its command at the end of that PTY's input, one that
\* completes returns what that shell holds, and no exec changes another id's
\* session.
C30_OneShellPerSession ==
    /\ ~ENABLED (MgrNext /\ ~(\A id \in (DOMAIN sessions) \cap (DOMAIN sessions') :
            /\ IsPrefix(sessions[id].pty, sessions'[id].pty)
            /\ sessions[id].marker => sessions'[id].marker))
    /\ ~ENABLED (MgrNext /\ ~(\A id \in SessIds, cmd \in SessCommands, to \in BOOLEAN :
            manager_exec(id, cmd, to) =>
                /\ DOMAIN sessions' = DOMAIN sessions
                /\ \A j \in (DOMAIN sessions) \ {id} : sessions'[j] = sessions[j]
                /\ (id \in DOMAIN sessions /\ sessions[id].alive /\ cmd # "blocked") =>
                       sessions'[id].pty = Append(sessions[id].pty, cmd)
                /\ (mlast'.err = "" /\ cmd = "echo" /\ ~to) =>
                       mlast'.val[1].lines = <<sessions[id].marker>>))

C30_Witness ==
    /\ mlast.op = "exec" /\ mlast.err = "" /\ mlast.val # None
    /\ mlast.val[1].exit_code = 0
    /\ mlast.val[1].lines = <<TRUE>>
    /\ mlast.id \in DOMAIN sessions
    /\ sessions[mlast.id].pty = <<"export", "echo">>
    /\ \E j \in DOMAIN sessions :
          /\ j # mlast.id
          /\ ~sessions[j].marker
          /\ sessions[j].pty = <<"echo">>

\* C31: wait, status, get_output and kill on an id that is not in the map
\* answer "no process" and kill on an entry with a cached result answers "has
\* already completed"; each leaves the map, the tasks and the waiters as
\* they were.
C31_CallerErrorsChangeNothing ==
    ~ENABLED (Next /\ ~(\A id \in Ids :
          LET called == \/ \E timed \in BOOLEAN : wait_take(id, timed)
                        \/ status(id)
                        \/ get_output(id, None, None)
                        \/ kill(id)
          IN /\ (id \notin DOMAIN entries /\ called) =>
                    /\ last'.id = id /\ last'.err = "no process" /\ last'.val = None
                    /\ entries' = entries /\ tasks' = tasks /\ waiters' = waiters
             /\ (id \in DOMAIN entries /\ entries[id].result # None /\ kill(id)) =>
                    /\ last' = Reply("kill", id, "has already completed", None)
                    /\ entries' = entries /\ tasks' = tasks /\ waiters' = waiters))

C31_Witness ==
    /\ last = Reply("kill", last.id, "has already completed", None)
    /\ last.id \in DOMAIN entries
    /\ entries[last.id].result # None
    /\ entries[last.id].completed_at # None /\ entries[last.id].completed_at[1] < now
    /\ \E id \in Ids : id \notin DOMAIN entries

\* C32: a caller that is past the lock, in particular one whose exec or send
\* is running its command, holds the lock of the session map, so at most one
\* is; and while a command is running no other caller's call makes any step
\* but to queue for the lock: no create, list, close or exec of another
\* session returns or changes the map before the command has returned.
C32_OneCommandAtATime ==
    /\ [](\A c \in Callers : mcalls[c].pc \in {"held", "running"} => guard = Some(c))
    /\ [][\A c \in Callers :
            mcalls[c].pc = "running" =>
                /\ \A d \in Callers \ {c} :
                       \/ mcalls'[d] = mcalls[d]
                       \/ mcalls[d].pc = "idle" /\ mcalls'[d].pc = "lock"
                /\ mcalls'[c] = mcalls[c] => (sessions' = sessions /\ mlast' = NoReply)]_vars

C32_Witness ==
    /\ mcalls[1].pc = "running" /\ mcalls[1].op = "exec" /\ mcalls[1].id = 1
    /\ mcalls[2].pc = "lock" /\ mcalls[2].op = "exec" /\ mcalls[2].id = 2
    /\ {1, 2} \subseteq DOMAIN sessions
    /\ sessions[2].alive
    /\ mlast.op = "none"

\* A wait of caller c is pending on a process that is still running.
WaitPending(c) ==
    /\ rcalls[c].pc = "await"
    /\ \E w \in BagToSet(waiters) : w.id = rcalls[c].id /\ tasks[w.tid].state = "running"

\* C33: a wait that awaits its task does not hold the map lock; a task that
\* holds a buffer lock is a reader or holds the map lock too; and every
\* status, get_output, kill, list and start that was called returns, whatever
\* waits are pending and whatever the reader tasks do.
C33_WaitDoesNotBlock ==
    /\ [](\A c \in Callers : rcalls[c].pc = "await" => map_guard # Some(c))
    /\ [](\A x \in buf_guard : x[2] = 0 \/ map_guard = Some(x[2]))
    /\ \A c \in Callers :
          (rcalls[c].pc \in {"prune", "lock", "map", "buf"}) ~> (rcalls[c].pc \in {"idle", "await"})

C33_Witness ==
    /\ WaitPending(1)
    /\ rcalls[2].pc = "idle"
    /\ last = Reply("kill", 2, "no process", None)
    /\ buf_guard = {<<1, 0>>}

\* C34: close on an id that is not in the map answers with an error and
\* changes nothing; on one that is, it removes the session, writes "exit",
\* drops both PTY halves before it waits, sends SIGKILL only after a wait of
\* 2 seconds and then waits at most 1 second more; it always returns, and
\* when it has, the id is not in the map (so not in list) and a create of
\* it is not refused.
C34_CloseTearsDown ==
    /\ [][\A id \in SessIds \cup OldSessIds(1) :
            (close_call(id) /\ id \notin DOMAIN sessions) =>
                /\ mlast'.op = "close" /\ mlast'.err # ""
                /\ sessions' = sessions /\ cl' = cl]_vars
    /\ [](cl.pc # "idle" => cl.id \notin DOMAIN sessions)
    /\ [](cl.pc \in {"wait", "wait_kill"} => cl.wrote_exit /\ ~cl.writer /\ ~cl.reader)
    /\ [](cl.pc = "wait" => cl.waited <= CLOSE_WAIT_SECONDS /\ ~cl.sigkill)
    /\ [](cl.pc = "wait_kill" => cl.waited <= KILL_WAIT_SECONDS)
    /\ [](cl.sigkill => cl.graceful = CLOSE_WAIT_SECONDS)
    /\ [](mlast.op = "close" /\ mlast.err = "" =>
            /\ mlast.id \notin DOMAIN sessions
            /\ create_check(sessions, mlast.id) = "")
    /\ [][(mlast.op = "close" /\ mlast.err = "" /\ mlast'.op = "list") =>
            mlast.id \notin DOMAIN mlast'.val]_vars
    /\ (cl.pc # "idle") ~> (cl.pc = "idle")

C34_Witness ==
    /\ cl.pc = "idle" /\ cl.sigkill /\ cl.child = "running"
    /\ cl.waited = KILL_WAIT_SECONDS
    /\ mlast = Reply("create", cl.id, "", Some([id |-> cl.id, alive |-> TRUE]))
    /\ Cardinality(DOMAIN sessions) = MAX_SESSIONS

\* The text of line l after the first occurrence of pat in it.
After(l, pat) == SubSeq(l, find(l, pat)[1] + Len(pat) + 1, Len(l))

\* C35: once the start marker was seen, every line that contains the exec's
\* end prefix, with "__" somewhere after it, ends the loop with exit_code
\* parsed from the text between the prefix and that "__" (-1 if it does not
\* parse), and is not appended to the lines.
C35_EndPrefixEndsExec ==
    [][\A l \in MarkerLines :
          LET prefix == end_marker_prefix(call[1].cmd_id) IN
          (/\ read_loop_step
           /\ ret[1].found_start
           /\ Head(call[1].stream) = l
           /\ find(l, prefix) # None
           /\ find(After(l, prefix), <<"_", "_">>) # None)
          => LET after == After(l, prefix)
                 code_str == SubSeq(after, 1, find(after, <<"_", "_">>)[1])
             IN /\ ret'[1].done
                /\ ret'[1].exit_code = unwrap_or(parse_i32(code_str), -1)
                /\ ret'[1].lines = ret[1].lines]_vars

\* The first n lines of a run-length encoded buffer are those of another.
buf_prefix(a, b) ==
    \/ a = <<>>
    \/ /\ Len(a) <= Len(b)
       /\ SubSeq(a, 1, Len(a) - 1) = SubSeq(b, 1, Len(a) - 1)
       /\ a[Len(a)].line = b[Len(a)].line
       /\ a[Len(a)].n <= b[Len(a)].n

\* C36: once the start marker was seen and until the end marker is, every
\* line read that does not contain the marker prefix, an empty one included,
\* is added at the end of the lines if fewer than 100 000 are held and
\* dropped otherwise; a line that contains the marker prefix and is not the
\* end marker is dropped; in both cases the lines held before stay and the
\* loop goes on.
C36_LinesCollectedInOrder ==
    [][(read_loop_step /\ ret[1].found_start) =>
          LET l == Head(call[1].stream)
              before == ret[1].lines
              after == ret'[1].lines
          IN /\ buf_prefix(before, after)
             /\ (find(l, MARKER_PREFIX) = None /\ buf_len(before) < MAX_OUTPUT_LINES) =>
                    /\ buf_len(after) = buf_len(before) + 1
                    /\ buf_last(after) = l
                    /\ ~ret'[1].done
             /\ (find(l, MARKER_PREFIX) = None /\ buf_len(before) >= MAX_OUTPUT_LINES) =>
                    (after = before /\ ~ret'[1].done)
             /\ find(l, MARKER_PREFIX) # None => after = before
             /\ buf_len(after) <= MAX_OUTPUT_LINES
             /\ call'[1].stream = Tail(call[1].stream)]_vars

C36_Witness ==
    /\ call # None /\ call[1].fn = "read_loop"
    /\ ret[1].found_start /\ ~ret[1].done
    /\ call[1].stream = <<>>
    /\ ret[1].lines = <<[line |-> <<>>, n |-> 1], [line |-> <<"_", "7", "x">>, n |-> 1]>>


\* Number of copies of line in buf.
RECURSIVE buf_count(_, _)
buf_count(buf, line) ==
    IF buf = <<>> THEN 0
    ELSE (IF buf[1].line = line THEN buf[1].n ELSE 0) + buf_count(Tail(buf), line)

\* C37: the result of a run that spawned its child is the buffer as it is
\* once the child has been waited for and both reader tasks have finished,
\* and, below the cap, it holds every line the child wrote to stdout and
\* every line it wrote to stderr.
C37_ResultHoldsEveryLine ==
    (run.result # None /\ run.command # "blocked") =>
        /\ child.state # "running"
        /\ readers = {}
        /\ run.result[1].lines = buffer
        /\ buf_len(buffer) < PROCESS_MAX_OUTPUT_LINES =>
               \A p \in Pipes : buf_count(buffer, p) = child.wrote[p]


\* C38: every entry counted as running can still be moved out of the running
\* state: an entry with no cached result holds its task handle, or a wait on
\* it is in progress (and will cache the result).
C38_RunningReclaimable ==
    \A id \in DOMAIN entries :
        LET e == entries[id] IN
        e.result = None =>
            \/ e.join_handle # None
            \/ \E w \in BagToSet(waiters) : w.id = id /\ w.tid = e.output_buffer


\* Entry id is the same entry before and after the step: neither pruned nor
\* overwritten.
SameEntry(id) ==
    /\ id \in DOMAIN entries
    /\ id \in DOMAIN entries'
    /\ entries'[id].output_buffer = entries[id].output_buffer

\* C39: the lines get_output reads for one entry only grow, every step of the
\* registry and of its tasks leaving the earlier lines as a prefix of the
\* later ones, and once the entry has a cached result they do not change any
\* more, whatever the reader tasks still append; a get_output reply reports
\* just these lines.
C39_OutputOnlyGrows ==
    /\ ~ENABLED (Next /\ ~(\A id \in Ids :
            SameEntry(id) =>
                /\ IsPrefix(output_lines(entries[id]), output_lines(entries[id])')
                /\ entries[id].result # None =>
                       output_lines(entries[id])' = output_lines(entries[id])))
    /\ ((last.op = "get_output" /\ last.err = "") =>
             /\ last.val[1].total_lines = Len(output_lines(entries[last.id]))
             /\ IsPrefix(last.val[1].lines,
                         SubSeq(output_lines(entries[last.id]),
                                last.val[1].start_line + 1,
                                Len(output_lines(entries[last.id])))))

\* A killed entry whose reader task went on appending, and a get_output that
\* still reports the lines of the kill.
C39_Witness ==
    /\ last.op = "get_output" /\ last.err = ""
    /\ last.id \in DOMAIN entries
    /\ entries[last.id].result # None
    /\ entries[last.id].output_buffer # 0
    /\ tasks[entries[last.id].output_buffer].state = "aborted"
    /\ last.val[1].total_lines = 1
    /\ last.val[1].lines = entries[last.id].result[1].lines
    /\ Len(Buffer(entries[last.id].output_buffer)) = 2


\* C40: every entry of the registry has a cached result exactly when it has
\* a completed_at time, and never holds both a task handle and a cached
\* result; a step that caches a result sets the completion time in the same
\* step.
C40_EntryWellFormed ==
    /\ (\A id \in DOMAIN entries :
             LET e == entries[id] IN
             /\ (e.result # None) <=> (e.completed_at # None)
             /\ ~(e.join_handle # None /\ e.result # None))
    /\ ~ENABLED (Next /\ ~(\A id \in Ids :
            (SameEntry(id) /\ entries[id].result = None /\ entries'[id].result # None) =>
                (entries'[id].completed_at = Some(now) /\ entries'[id].join_handle = None)))

\* A wait has just cached the result of a started command.
C40_Witness ==
    /\ last.op = "wait" /\ last.err = ""
    /\ last.id \in DOMAIN entries
    /\ entries[last.id].output_buffer # 0
    /\ entries[last.id].result = last.val
    /\ entries[last.id].result # None
    /\ entries[last.id].completed_at = Some(now)
    /\ entries[last.id].join_handle = None
    /\ waiters = EmptyBag

=============================================================================
